---- MODULE Spec2Model ----
(***************************************************************************)
(* A model of tool-search-tools-mcp: the tool registry (MCPRegistry), the  *)
(* embedding service (EmbeddingService), the fuzzy index cache of          *)
(* search.ts and the startup of the facade (ToolSearchToolsMcpServer).     *)
(*                                                                         *)
(* The program is cooperative asynchronous code: one step of the model is  *)
(* the code that runs between two suspension points (await) of one call.   *)
(***************************************************************************)
EXTENDS Integers, Sequences, FiniteSets, TLC

(***************************************************************************)
(* Bounds of the model.                                                    *)
(***************************************************************************)
MaxTools == 2       \* longest tool list one upstream server enumerates
MaxCalls == 2       \* registry calls (connect / register / skill) per run
MaxServers == 2     \* servers a config names
MaxClock == 2       \* last millisecond Date.now() reaches
MaxRestarts == 1    \* process restarts per run
MaxLoads == 2       \* model loads the embedding service may start
MaxCallers == 2     \* concurrent generateEmbedding callers

SkillSlot == MaxServers + 1          \* where the facade runs registerSkill
Tasks == 1..SkillSlot               \* call number t runs in slot t
Servers == {"s1", "internal"}       \* server names a config may use
Names == {"a", "b"}                 \* tool and skill names
Defs == {1, 2}                      \* versions of a tool's description/schema
Callers == 1..MaxCallers
Loads == 1..MaxLoads

VARIABLES
    tools,          \* MCPRegistry._tools
    toolMap,        \* the (server, name) -> record index behind getTool
    updatedAt,      \* MCPRegistry._updatedAt
    fuseCache,      \* search.ts fuseCache entry of this registry
    now,            \* Date.now()
    vectorMode,     \* process.env.MCP_SEARCH_MODE === 'vector'
    modelName,      \* EmbeddingService.modelName
    cacheFiles,     \* CACHE_DIR/<hash>.json
    cacheDir,       \* CACHE_DIR itself and its files that are no <hash>.json
    task,           \* the calls in flight, one per slot
    nextCall,       \* number of the next call (its Client object)
    restarts,       \* restarts so far
    phase,          \* position of ToolSearchToolsMcpServer.start
    config,         \* Object.entries(config.mcpServers)
    activeHashes,   \* the activeHashes set of loadConfig
    skillsFile,     \* the file at MCP_SKILLS_PATH
    skillsLeft,     \* the skills loadSkills has still to register
    pipeline,       \* EmbeddingService.pipeline (0 = null)
    pipelinePromise,\* EmbeddingService.pipelinePromise (0 = null)
    loads,          \* state of every model load started so far
    caller,         \* the generateEmbedding calls in flight
    call,           \* the call_tool request in flight: its frames and response
    upstream,       \* the callTool requests the upstream clients received
    subst,          \* one resolveValue call: value, context, result
    search,         \* one searchTools call: query, limit, results
    saving          \* one saveEmbeddingsToCache call and the read after it

registryVars == <<tools, toolMap, updatedAt>>
envVars == <<vectorMode, modelName>>
cacheVars == <<cacheFiles, cacheDir>>
taskVars == <<task, nextCall>>
facadeVars == <<phase, config, activeHashes, skillsFile, skillsLeft>>
pipelineVars == <<pipeline, pipelinePromise, loads, caller>>
execVars == <<call, upstream, subst, search, saving>>
vars == <<tools, toolMap, updatedAt, fuseCache, now, vectorMode, modelName, cacheFiles, cacheDir,
          task, nextCall, restarts, phase, config, activeHashes, skillsFile, skillsLeft,
          pipeline, pipelinePromise, loads, caller, call, upstream, subst,
          search, saving>>

(***************************************************************************)
(* Values.                                                                 *)
(***************************************************************************)
\* The model the service was constructed with: MCP_EMBEDDING_MODEL, else the
\* default.  Dimension is the length of the vectors a model's pipeline returns.
DEFAULT_MODEL == "Xenova/all-MiniLM-L6-v2"
OtherModel == "Xenova/all-mpnet-base-v2"
Models == {DEFAULT_MODEL, OtherModel}
Dimension(model) == IF model = DEFAULT_MODEL THEN 384 ELSE 768

\* An embedding is determined by the text it was generated from (the tool's
\* name, description and keywords) and by the model that generated it, which
\* fixes its length `dim`.  NoEmb is `undefined`.
NoEmb == [n |-> "none", d |-> 0, dim |-> 0]
EmbeddingOf(name, def) == [n |-> name, d |-> def, dim |-> Dimension(modelName)]

NoClient == 0
NoSkillsFile == [state |-> "absent", skills |-> <<>>]
NoConfig == [state |-> "missing", servers |-> <<>>]
NoHash == <<"none", "none">>
TheConfig == "cmd"
BareConfig == "cmd-noargs"
\* JSON.stringify({serverName, config}) drops a key whose value is undefined:
\* a config with args [] and one without args give different strings.
stringify(args) == IF args = "omitted" THEN BareConfig ELSE TheConfig
\* args || []
ArgsOrEmpty(args) == IF args = "omitted" THEN "empty" ELSE args

\* sha256 of JSON.stringify({serverName, config}): injective on its input.
generateServerHash(serverName, cfg) == <<serverName, cfg>>

Hashes == {generateServerHash(s, c) : s \in Servers, c \in {TheConfig, BareConfig}}

\* A Record<string, embedding>: a name that is no key maps to NoEmb.
EmptyMap == [n \in Names |-> NoEmb]
NoFile == [state |-> "none", map |-> EmptyMap]
\* CACHE_DIR before the first save: it does not exist.  cleanupError is the
\* "Failed to cleanup cache" line of the log.
OtherFiles == {".gitkeep", "notes.txt"}
NoDir == [exists |-> FALSE, others |-> {}, cleanupError |-> FALSE]
NoCached == [hit |-> FALSE, map |-> EmptyMap]    \* getCachedEmbeddings returned null

Tool == [name : Names, def : Defs]
ToolsOver(names, defs) == [name : names, def : defs]
\* A Skill of skills.yaml; the steps field of a record is undefined (NoSteps)
\* or the steps array of its skill.
SkillsOver(names, defs, stepLists) == [name : names, def : defs, steps : stepLists]
NoSteps == [defined |-> FALSE, list |-> <<>>]
StepsOf(skill) == [defined |-> TRUE, list |-> skill.steps]
RECURSIVE SeqsUpTo(_, _)
SeqsUpTo(S, n) ==
    IF n = 0 THEN {<<>>}
    ELSE LET shorter == SeqsUpTo(S, n - 1)
         IN shorter \cup {Append(q, x) : q \in {r \in shorter : Len(r) = n - 1}, x \in S}
ToolLists(names, defs) == SeqsUpTo(ToolsOver(names, defs), MaxTools)

Absent == [server |-> "none", name |-> "none", description |-> 0,
           client |-> NoClient, embedding |-> NoEmb, isSkill |-> FALSE, steps |-> NoSteps]
CallServers == {"s1", "s2"}
Keys == (Servers \cup CallServers \cup {"internal"}) \X Names

IdleTask == [pc |-> "idle", kind |-> "none", server |-> "none", client |-> NoClient,
             hash |-> NoHash, list |-> <<>>, cached |-> NoCached, gen |-> <<>>,
             current |-> EmptyMap, failedAt |-> "none", thrown |-> FALSE]


(***************************************************************************)
(* MCPRegistry: pure parts of registerToolsFromClient and registerSkill.   *)
(***************************************************************************)
\* getCachedEmbeddings: the parsed file, or null (hit = FALSE) when the file
\* is absent or does not parse.
getCachedEmbeddings(hash) ==
    IF cacheFiles[hash].state = "ok"
    THEN [hit |-> TRUE, map |-> cacheFiles[hash].map]
    ELSE [hit |-> FALSE, map |-> EmptyMap]

\* getOrGenerateEmbedding without the cache lookup: every vector is generated.
getOrGenerateEmbeddingAnew(tool, cachedEmbeddings, isVectorMode, generationFails) ==
    IF ~isVectorMode THEN [embedding |-> NoEmb, isNew |-> FALSE]
    ELSE IF generationFails THEN [embedding |-> NoEmb, isNew |-> FALSE]
    ELSE [embedding |-> EmbeddingOf(tool.name, tool.def), isNew |-> TRUE]

\* getOrGenerateEmbedding: the cached vector under the tool's name if there is
\* one, else a generated one; a failed generation leaves it undefined.
getOrGenerateEmbedding(tool, cachedEmbeddings, isVectorMode, generationFails) ==
    IF ~isVectorMode THEN [embedding |-> NoEmb, isNew |-> FALSE]
    ELSE LET embedding == IF cachedEmbeddings.hit
                          THEN cachedEmbeddings.map[tool.name] ELSE NoEmb
         IN IF embedding # NoEmb THEN [embedding |-> embedding, isNew |-> FALSE]
            ELSE IF generationFails THEN [embedding |-> NoEmb, isNew |-> FALSE]
            ELSE [embedding |-> EmbeddingOf(tool.name, tool.def), isNew |-> TRUE]

\* The tools of `list` for which generateEmbedding is called.
NeedsGeneration(list, cachedEmbeddings, isVectorMode) ==
    {i \in 1..Len(list) :
        /\ isVectorMode
        /\ ~(cachedEmbeddings.hit /\ cachedEmbeddings.map[list[i].name] # NoEmb)}

\* A record pushed without the client that enumerated the tool.
ToolRecordWithoutClient(serverName, tool, client, embedding) ==
    [server |-> serverName, name |-> tool.name, description |-> tool.def,
     client |-> NoClient, embedding |-> embedding, isSkill |-> FALSE, steps |-> NoSteps]

\* The record registerToolsFromClient pushes for one enumerated tool.
ToolRecord(serverName, tool, client, embedding) ==
    [server |-> serverName, name |-> tool.name, description |-> tool.def,
     client |-> client, embedding |-> embedding, isSkill |-> FALSE, steps |-> NoSteps]

\* registerSkill filing the skill under the server name 'skills'.
SkillRecordUnderSkills(skill, embedding) ==
    [server |-> "skills", name |-> skill.name, description |-> skill.def,
     client |-> NoClient, embedding |-> embedding, isSkill |-> TRUE,
     steps |-> StepsOf(skill)]

\* The record registerSkill pushes.
SkillRecord(skill, embedding) ==
    [server |-> "internal", name |-> skill.name, description |-> skill.def,
     client |-> NoClient, embedding |-> embedding, isSkill |-> TRUE,
     steps |-> StepsOf(skill)]

\* Records put in front of the list (unshift).
PushFront(list, records) == records \o list

\* this._tools.push: the records go to the end of the list.
Push(list, records) == list \o records

\* The (server, name) -> record index: a later record of a key replaces the
\* earlier one.
RECURSIVE IndexAll(_, _, _, _)
IndexAll(map, serverName, names, records) ==
    IF records = <<>> THEN map
    ELSE IndexAll([map EXCEPT ![<<serverName, Head(names)>>] = Head(records)],
                  serverName, Tail(names), Tail(records))

ListedNames(list) == [i \in 1..Len(list) |-> list[i].name]

\* getTool: the record of the key, or undefined (Absent).
getTool(server, name) ==
    IF <<server, name>> \in DOMAIN toolMap THEN toolMap[<<server, name>>] ELSE Absent

\* The loop of registerToolsFromClient over `results`: currentEmbeddings.
RECURSIVE currentEmbeddings(_, _, _)
currentEmbeddings(current, list, results) ==
    IF list = <<>> THEN current
    ELSE currentEmbeddings(
            IF Head(results).embedding # NoEmb
            THEN [current EXCEPT ![Head(list).name] = Head(results).embedding]
            ELSE current,
            Tail(list), Tail(results))

newEmbeddingsCount(results) ==
    Cardinality({i \in 1..Len(results) :
                    results[i].embedding # NoEmb /\ results[i].isNew})

\* The records the loop pushes, in the order of the enumeration.
PushedRecords(serverName, list, client, results) ==
    [i \in 1..Len(list) |->
        ToolRecord(serverName, list[i], client, results[i].embedding)]

\* The save also run when every embedding came from the cache.
ShouldSaveWhenResolved(serverHash, results) ==
    serverHash # NoHash /\ \E i \in 1..Len(results) : results[i].embedding # NoEmb

\* Whether registerToolsFromClient calls saveEmbeddingsToCache.
ShouldSave(serverHash, results) ==
    serverHash # NoHash /\ newEmbeddingsCount(results) > 0

(***************************************************************************)
(* The state after construction.                                           *)
(***************************************************************************)
EmptyIndex == [k \in Keys |-> Absent]
NoFuse == [present |-> FALSE, updatedAt |-> 0, instance |-> <<>>]

InitRegistry ==
    /\ tools = <<>>
    /\ toolMap = EmptyIndex
    /\ updatedAt = 0
    /\ fuseCache = NoFuse

\* No request in flight, nothing dispatched, nothing substituted.
\* A value has the characters of a string (of a number: its digits), the
\* items of an array or the fields of an object, each a key and a value.
Undefined == [t |-> "undefined", s |-> <<>>, items |-> <<>>, fields |-> <<>>]
Str(chars) == [t |-> "string", s |-> chars, items |-> <<>>, fields |-> <<>>]
Num(digits) == [t |-> "number", s |-> digits, items |-> <<>>, fields |-> <<>>]
Arr(items) == [t |-> "array", s |-> <<>>, items |-> items, fields |-> <<>>]
Obj(fields) == [t |-> "object", s |-> <<>>, items |-> <<>>, fields |-> fields]
Field(key, val) == [k |-> key, val |-> val]
Null == [t |-> "null", s |-> <<>>, items |-> <<>>, fields |-> <<>>]

\* What a call_tool request or an executeTool call ended with: a result, the
\* handler's {isError: true, content: [text]}, or a rejection.
NoResponse == [kind |-> "none", value |-> Undefined, error |-> "none"]
\* argsAfter is the caller's args object as the call leaves it, failedPath the
\* steps in hand when an error was thrown.
NoCall == [pc |-> "idle", entry |-> "none", server |-> "none", toolName |-> "none",
           args |-> Undefined, tool |-> Absent, hasRegistry |-> FALSE, frames |-> <<>>,
           response |-> NoResponse, argsAfter |-> Undefined, failedPath |-> <<>>]
NoSubst == [pc |-> "idle", value |-> Undefined,
            context |-> [n \in Names |-> Undefined], result |-> Undefined]
\* A query as the search sees it: the dot product of its embedding with
\* every embedding (in hundredths), and what Fuse and getMatchWeight make of
\* it for every indexed record (scores and weights in tenths).
NoQuery == [dots |-> <<>>, phrase |-> <<>>, words |-> <<>>, weight |-> <<>>]
NoSearch == [pc |-> "idle", limit |-> 0, query |-> NoQuery, results |-> <<>>]
\* No save under way: nothing opened, nothing read back.
NoLoaded == [hit |-> FALSE, entries |-> <<>>]
NoSave == [pc |-> "idle", embeddings |-> <<>>, i |-> 0, chunks |-> <<>>,
           currentChunkSize |-> 0, file |-> <<>>, flushed |-> {}, loaded |-> NoLoaded]
InitExec ==
    /\ call = NoCall
    /\ upstream = <<>>
    /\ subst = NoSubst
    /\ search = NoSearch
    /\ saving = NoSave

InitPipeline ==
    /\ pipeline = 0
    /\ pipelinePromise = 0
    /\ loads = [l \in Loads |-> "unused"]
    /\ caller = [c \in Callers |-> [pc |-> "idle", awaits |-> 0]]

Init ==
    /\ modelName = DEFAULT_MODEL
    /\ InitRegistry
    /\ InitPipeline
    /\ InitExec
    /\ now = 1
    /\ vectorMode = FALSE
    /\ cacheFiles = [h \in Hashes |-> NoFile]
    /\ cacheDir = NoDir
    /\ task = [t \in Tasks |-> IdleTask]
    /\ nextCall = 1
    /\ restarts = 0
    /\ phase = "api"
    /\ config = NoConfig
    /\ activeHashes = {}
    /\ skillsFile = NoSkillsFile
    /\ skillsLeft = <<>>

(***************************************************************************)
(* MCPRegistry.connectServer and registerToolsFromClient, one action per   *)
(* stretch of code between two awaits.                                     *)
(***************************************************************************)
\* A call that ended: its locals are gone, what it was given and what came
\* back to it stay.
Ended(t) ==
    [task EXCEPT ![t].pc = "done", ![t].cached = NoCached, ![t].current = EmptyMap]

Thrown(t, stage) ==
    [Ended(t) EXCEPT ![t].failedAt = stage, ![t].thrown = TRUE]

\* connectServer up to `await client.connect(transport)`.
BeginConnect(serverName, args, client) ==
    [IdleTask EXCEPT !.pc = "connect", !.kind = "connect", !.server = serverName,
                     !.client = client,
                     !.hash = generateServerHash(serverName, stringify(args))]

connectServer(t, serverName) ==
    /\ phase = "api"
    /\ task[t].pc = "idle"
    /\ t = nextCall
    /\ nextCall <= MaxCalls
    /\ task' = [task EXCEPT ![t] = BeginConnect(serverName, "empty", nextCall)]
    /\ nextCall' = nextCall + 1
    /\ UNCHANGED <<execVars, registryVars, fuseCache, now, envVars, cacheVars, restarts,
                   facadeVars, pipelineVars>>

\* client.connect rejects (spawn or handshake failure): logged and rethrown.
ConnectFails(t) ==
    /\ task[t].pc = "connect"
    /\ task' = Thrown(t, "connect")
    /\ UNCHANGED <<execVars, registryVars, fuseCache, now, envVars, cacheVars, nextCall,
                   restarts, facadeVars, pipelineVars>>

\* client.connect resolves: registerToolsFromClient starts, up to listTools.
ConnectResolves(t) ==
    /\ task[t].pc = "connect"
    /\ task' = [task EXCEPT ![t].pc = "list"]
    /\ UNCHANGED <<execVars, registryVars, fuseCache, now, envVars, cacheVars, nextCall,
                   restarts, facadeVars, pipelineVars>>

\* A direct call of the public registerToolsFromClient(serverName, client, hash?).
registerToolsFromClient(t, serverName, serverHash) ==
    /\ phase = "api"
    /\ task[t].pc = "idle"
    /\ t = nextCall
    /\ nextCall <= MaxCalls
    /\ task' = [task EXCEPT ![t] = [IdleTask EXCEPT !.pc = "list", !.kind = "register",
                                        !.server = serverName, !.client = nextCall,
                                        !.hash = serverHash]]
    /\ nextCall' = nextCall + 1
    /\ UNCHANGED <<execVars, registryVars, fuseCache, now, envVars, cacheVars, restarts,
                   facadeVars, pipelineVars>>

\* A failed enumeration that still stamps the registry.
ListFailsAndStamps(t) ==
    /\ task[t].pc = "list"
    /\ task' = Thrown(t, "list")
    /\ updatedAt' = now
    /\ UNCHANGED <<execVars, tools, toolMap, fuseCache, now, envVars, cacheVars, nextCall,
                   restarts, facadeVars, pipelineVars>>

\* listTools rejects, or ListToolsResultSchema.parse throws.
ListFails(t) ==
    /\ task[t].pc = "list"
    /\ task' = Thrown(t, "list")
    /\ UNCHANGED <<execVars, registryVars, fuseCache, now, envVars, cacheVars, nextCall,
                   restarts, facadeVars, pipelineVars>>

\* listTools resolves with `list`; the cache is read only in vector mode with a hash.
ListResolves(t, list) ==
    /\ task[t].pc = "list"
    /\ task' = [task EXCEPT ![t].list = list,
                            ![t].cached = NoCached,
                            ![t].pc = IF task[t].hash # NoHash /\ vectorMode
                                      THEN "cache" ELSE "embed"]
    /\ UNCHANGED <<execVars, registryVars, fuseCache, now, envVars, cacheVars, nextCall,
                   restarts, facadeVars, pipelineVars>>

\* `await embeddingService.getCachedEmbeddings(serverHash)` resolves.
CacheRead(t) ==
    /\ task[t].pc = "cache"
    /\ task' = [task EXCEPT ![t].cached = getCachedEmbeddings(task[t].hash),
                            ![t].pc = "embed"]
    /\ UNCHANGED <<execVars, registryVars, fuseCache, now, envVars, cacheVars, nextCall,
                   restarts, facadeVars, pipelineVars>>

\* What each generateEmbedding / cache lookup of the batch came to.
Outcomes(list, cachedEmbeddings, isVectorMode, failing) ==
    [i \in 1..Len(list) |->
        IF ~isVectorMode THEN "none"
        ELSE IF i \notin NeedsGeneration(list, cachedEmbeddings, isVectorMode) THEN "cached"
        ELSE IF i \in failing THEN "fail" ELSE "ok"]

Results(list, cachedEmbeddings, isVectorMode, failing) ==
    [i \in 1..Len(list) |->
        getOrGenerateEmbedding(list[i], cachedEmbeddings, isVectorMode, i \in failing)]

\* The value registerToolsFromClient leaves in _updatedAt.
updatedAtAfterRegister == now

\* getOrGenerateEmbedding without its try/catch: a rejected generation
\* rejects the batch and the call.
EmbedAndPushUncaught(t, failing) ==
    /\ task[t].pc = "embed"
    /\ task[t].kind \in {"connect", "register"}
    /\ failing \subseteq NeedsGeneration(task[t].list, task[t].cached, vectorMode)
    /\ LET list == task[t].list
           results == Results(list, task[t].cached, vectorMode, failing)
           pushed == PushedRecords(task[t].server, list, task[t].client, results)
           save == ShouldSave(task[t].hash, results)
       IN IF failing # {}
          THEN /\ task' = Thrown(t, "embed")
               /\ UNCHANGED registryVars
          ELSE /\ tools' = Push(tools, pushed)
               /\ toolMap' = IndexAll(toolMap, task[t].server, ListedNames(list), pushed)
               /\ updatedAt' = IF save THEN updatedAt ELSE updatedAtAfterRegister
               /\ task' = IF save
                           THEN [task EXCEPT
                                   ![t].gen = Outcomes(list, task[t].cached, vectorMode, failing),
                                   ![t].current = currentEmbeddings(task[t].cached.map, list, results),
                                   ![t].pc = "save"]
                           ELSE [Ended(t) EXCEPT
                                   ![t].gen = Outcomes(list, task[t].cached, vectorMode, failing)]
    /\ UNCHANGED <<execVars, fuseCache, now, envVars, cacheVars, nextCall, restarts,
                   facadeVars, pipelineVars>>

\* The batches settle (the generations of `failing` reject); the loop pushes
\* every record; then either the cache is saved (an await) or the call ends.
EmbedAndPush(t, failing) ==
    /\ task[t].pc = "embed"
    /\ task[t].kind \in {"connect", "register"}
    /\ failing \subseteq NeedsGeneration(task[t].list, task[t].cached, vectorMode)
    /\ LET list == task[t].list
           results == Results(list, task[t].cached, vectorMode, failing)
           pushed == PushedRecords(task[t].server, list, task[t].client, results)
           save == ShouldSave(task[t].hash, results)
       IN /\ tools' = Push(tools, pushed)
          /\ toolMap' = IndexAll(toolMap, task[t].server, ListedNames(list), pushed)
          /\ updatedAt' = IF save THEN updatedAt ELSE updatedAtAfterRegister
          /\ task' = IF save
                      THEN [task EXCEPT
                              ![t].gen = Outcomes(list, task[t].cached, vectorMode, failing),
                              ![t].current = currentEmbeddings(task[t].cached.map, list, results),
                              ![t].pc = "save"]
                      ELSE [Ended(t) EXCEPT
                              ![t].gen = Outcomes(list, task[t].cached, vectorMode, failing)]
    /\ UNCHANGED <<execVars, fuseCache, now, envVars, cacheVars, nextCall, restarts,
                   facadeVars, pipelineVars>>

\* saveEmbeddingsToCache: the file after the call.
FileAfterSave(file, embeddings, opened, written) ==
    IF ~opened THEN file
    ELSE IF written THEN [state |-> "ok", map |-> embeddings]
    ELSE [state |-> "corrupt", map |-> EmptyMap]

\* `await saveEmbeddingsToCache` settles.  mkdir may fail (nothing changes),
\* open may fail (the file is left alone), a write may fail (the file was
\* truncated by open 'w'); all are caught and logged.  fileHandle.close() in
\* the finally block is not guarded: if it rejects, the rejection leaves
\* registerToolsFromClient before _updatedAt is assigned.
SaveSettles(t, made, opened, written, closeThrows) ==
    /\ task[t].pc = "save"
    /\ cacheDir.exists => made
    /\ opened => made
    /\ written => opened
    /\ closeThrows => opened
    /\ cacheDir' = [cacheDir EXCEPT !.exists = made]
    /\ cacheFiles' = [cacheFiles EXCEPT ![task[t].hash] =
                        FileAfterSave(@, task[t].current, opened, written)]
    /\ IF closeThrows
       THEN /\ task' = Thrown(t, "save")
            /\ UNCHANGED updatedAt
       ELSE /\ task' = Ended(t)
            /\ updatedAt' = updatedAtAfterRegister
    /\ UNCHANGED <<execVars, tools, toolMap, fuseCache, now, envVars, nextCall, restarts,
                   facadeVars, pipelineVars>>


(***************************************************************************)
(* MCPRegistry.registerSkill.                                              *)
(***************************************************************************)
updatedAtAfterSkill == now

\* The push and the bump that end registerSkill.
PushSkill(skill, embedding) ==
    /\ tools' = Push(tools, <<SkillRecord(skill, embedding)>>)
    /\ toolMap' = IndexAll(toolMap, "internal", <<skill.name>>,
                           <<SkillRecord(skill, embedding)>>)
    /\ updatedAt' = updatedAtAfterSkill

\* Outside vector mode registerSkill has no await: the whole call is one step.
\* In vector mode it runs up to `await generateEmbedding`.
BeginSkill(t, skill) ==
    IF vectorMode
    THEN /\ task' = [task EXCEPT ![t] = [IdleTask EXCEPT !.pc = "embed", !.kind = "skill",
                                            !.server = "internal", !.list = <<skill>>]]
         /\ UNCHANGED registryVars
    ELSE /\ task' = [task EXCEPT ![t] = [IdleTask EXCEPT !.pc = "done", !.kind = "skill",
                                            !.server = "internal", !.list = <<skill>>,
                                            !.gen = <<"none">>]]
         /\ PushSkill(skill, NoEmb)

\* A direct call of the public registerSkill(skill).
registerSkill(t, skill) ==
    /\ phase = "api"
    /\ task[t].pc = "idle"
    /\ t = nextCall
    /\ nextCall <= MaxCalls
    /\ nextCall' = nextCall + 1
    /\ BeginSkill(t, skill)
    /\ UNCHANGED <<execVars, fuseCache, now, envVars, cacheVars, restarts, facadeVars,
                   pipelineVars>>

\* The embedding registerSkill attaches: a rejected generation is caught.
SkillEmbedding(skill, generationFails) ==
    IF generationFails THEN NoEmb ELSE EmbeddingOf(skill.name, skill.def)

\* generateEmbedding settles in vector mode; the record is pushed either way.
SkillEmbedAndPush(t, generationFails) ==
    /\ task[t].pc = "embed"
    /\ task[t].kind = "skill"
    /\ PushSkill(task[t].list[1], SkillEmbedding(task[t].list[1], generationFails))
    /\ task' = [task EXCEPT ![t].pc = "done",
                            ![t].gen = <<IF generationFails THEN "fail" ELSE "ok">>]
    /\ UNCHANGED <<execVars, fuseCache, now, envVars, cacheVars, nextCall, restarts,
                   facadeVars, pipelineVars>>

\* A millisecond passes.
Tick ==
    /\ now < MaxClock
    /\ now' = now + 1
    /\ UNCHANGED <<execVars, registryVars, fuseCache, envVars, cacheVars, taskVars, restarts,
                   facadeVars, pipelineVars>>

(***************************************************************************)
(* search.ts, fuzzySearch: the index cache.  A Fuse instance indexes the   *)
(* records the list holds when it is constructed.                          *)
(***************************************************************************)
CacheHit == fuseCache.present /\ fuseCache.updatedAt = updatedAt

fuzzySearch ==
    /\ phase \in {"api", "bound"}
    /\ ~vectorMode
    /\ fuseCache' = IF CacheHit THEN fuseCache
                    ELSE [present |-> TRUE, updatedAt |-> updatedAt, instance |-> tools]
    /\ UNCHANGED <<execVars, registryVars, now, envVars, cacheVars, taskVars, restarts,
                   facadeVars, pipelineVars>>

\* The process ends and is started again: the registry, the index cache and
\* the calls are gone, the cache directory and the clock stay.
RestartWith(model) ==
    /\ phase = "api"
    /\ restarts < MaxRestarts
    /\ \A t \in Tasks : task[t].pc \in {"idle", "done"}
    /\ restarts' = restarts + 1
    /\ modelName' = model
    /\ tools' = <<>>
    /\ toolMap' = EmptyIndex
    /\ updatedAt' = 0
    /\ fuseCache' = NoFuse
    /\ task' = [t \in Tasks |-> IdleTask]
    /\ UNCHANGED <<execVars, now, vectorMode, cacheVars, nextCall, facadeVars, pipelineVars>>

\* A restart with the environment unchanged.
Restart == RestartWith(modelName)

\* With MCP_SEARCH_MODE unset no cache file is read or written and no skill
\* embedding is awaited: those steps occur in the vector-mode specifications.
Next ==
    \/ \E t \in Tasks, s \in Servers : connectServer(t, s)
    \/ \E t \in Tasks : ConnectFails(t)
    \/ \E t \in Tasks : ConnectResolves(t)
    \/ \E t \in Tasks, s \in Servers :
            \E h \in {NoHash, generateServerHash(s, TheConfig)} :
                registerToolsFromClient(t, s, h)
    \/ \E t \in Tasks : ListFails(t)
    \/ \E t \in Tasks, l \in ToolLists(Names, {1}) : ListResolves(t, l)
    \/ \E t \in Tasks, f \in SUBSET (1..MaxTools) : EmbedAndPush(t, f)
    \/ \E t \in Tasks, k \in SkillsOver(Names, {1}, {<<>>}) : registerSkill(t, k)
    \/ Tick
    \/ fuzzySearch

Spec == Init /\ [][Next]_vars


(***************************************************************************)
(* The registry in vector mode, over restarts of the process: the cache    *)
(* directory outlives the registry.                                        *)
(***************************************************************************)
InitVector ==
    /\ modelName = DEFAULT_MODEL
    /\ InitRegistry
    /\ InitPipeline
    /\ InitExec
    /\ now = 1
    /\ vectorMode = TRUE
    /\ cacheFiles = [h \in Hashes |-> NoFile]
    /\ cacheDir = NoDir
    /\ task = [t \in Tasks |-> IdleTask]
    /\ nextCall = 1
    /\ restarts = 0
    /\ phase = "api"
    /\ config = NoConfig
    /\ activeHashes = {}
    /\ skillsFile = NoSkillsFile
    /\ skillsLeft = <<>>

NextVector ==
    \/ \E t \in Tasks : connectServer(t, "s1")
    \/ \E t \in Tasks : ConnectFails(t)
    \/ \E t \in Tasks : ConnectResolves(t)
    \/ \E t \in Tasks : registerToolsFromClient(t, "s1", NoHash)
    \/ \E t \in Tasks : ListFails(t)
    \/ \E t \in Tasks, l \in ToolLists(Names, Defs) : ListResolves(t, l)
    \/ \E t \in Tasks : CacheRead(t)
    \/ \E t \in Tasks, f \in SUBSET (1..MaxTools) : EmbedAndPush(t, f)
    \/ \E t \in Tasks, m \in BOOLEAN, o \in BOOLEAN, w \in BOOLEAN, c \in BOOLEAN :
            SaveSettles(t, m, o, w, c)
    \/ \E t \in Tasks, k \in SkillsOver({"a"}, {1}, {<<>>}) : registerSkill(t, k)
    \/ \E t \in Tasks, f \in BOOLEAN : SkillEmbedAndPush(t, f)
    \/ Restart

SpecVector == InitVector /\ [][NextVector]_vars

\* The same, where a restart may come with another MCP_EMBEDDING_MODEL: the
\* server configuration, and so the cache file's name, stays what it was.
NextModel ==
    \/ \E t \in Tasks : connectServer(t, "s1")
    \/ \E t \in Tasks : ConnectResolves(t)
    \/ \E t \in Tasks, l \in ToolLists(Names, {1}) : ListResolves(t, l)
    \/ \E t \in Tasks : CacheRead(t)
    \/ \E t \in Tasks, f \in SUBSET (1..MaxTools) : EmbedAndPush(t, f)
    \/ \E t \in Tasks, m \in BOOLEAN, o \in BOOLEAN, w \in BOOLEAN, c \in BOOLEAN :
            SaveSettles(t, m, o, w, c)
    \/ \E model \in Models : RestartWith(model)

SpecModel == InitVector /\ [][NextModel]_vars

\* The same calls with MCP_SEARCH_MODE set to vector or left unset.
InitRegister ==
    /\ modelName = DEFAULT_MODEL
    /\ InitRegistry
    /\ InitPipeline
    /\ InitExec
    /\ now = 1
    /\ vectorMode \in BOOLEAN
    /\ cacheFiles = [h \in Hashes |-> NoFile]
    /\ cacheDir = NoDir
    /\ task = [t \in Tasks |-> IdleTask]
    /\ nextCall = 1
    /\ restarts = 0
    /\ phase = "api"
    /\ config = NoConfig
    /\ activeHashes = {}
    /\ skillsFile = NoSkillsFile
    /\ skillsLeft = <<>>

SpecRegister == InitRegister /\ [][NextVector]_vars


(***************************************************************************)
(* ToolSearchToolsMcpServer.start: loadConfig, loadSkills, bind.           *)
(***************************************************************************)
ServerEntry == [name : Servers, hasCommand : BOOLEAN, args : {"empty"}]
\* An entry that has a command and no args key.
EntryWithoutArgs == [name : Servers, hasCommand : {TRUE}, args : {"omitted"}]
Configs ==
    {[state |-> "missing", servers |-> <<>>], [state |-> "invalid", servers |-> <<>>]}
    \cup {[state |-> "ok", servers |-> q] :
            q \in {r \in SeqsUpTo(ServerEntry, MaxServers) :
                      \A i, j \in 1..Len(r) : r[i].name = r[j].name => i = j}}
    \cup {[state |-> "ok", servers |-> <<e>>] : e \in EntryWithoutArgs}
SkillsFiles ==
    {NoSkillsFile, [state |-> "malformed", skills |-> <<>>]}
    \cup {[state |-> "ok", skills |-> q] : q \in SeqsUpTo(SkillsOver({"a"}, {1}, {<<>>}), 1)}

InitStartup ==
    /\ modelName = DEFAULT_MODEL
    /\ InitRegistry
    /\ InitPipeline
    /\ InitExec
    /\ now = 1
    /\ vectorMode \in BOOLEAN
    /\ cacheFiles = [h \in Hashes |-> NoFile]
    /\ cacheDir = NoDir
    /\ task = [t \in Tasks |-> IdleTask]
    /\ nextCall = 1
    /\ restarts = 0
    /\ phase = "start"
    /\ config \in Configs
    /\ activeHashes = {}
    /\ skillsFile \in SkillsFiles
    /\ skillsLeft = <<>>

Configured(t) == t <= Len(config.servers) /\ config.servers[t].hasCommand

\* loadConfig up to `await Promise.all(connectionPromises)`: a missing file
\* is skipped with a warning, invalid JSON is thrown to start(), which exits;
\* otherwise every entry with a command is hashed and its connectServer runs
\* up to its first await.
loadConfig ==
    /\ phase = "start"
    /\ IF config.state = "missing"
       THEN /\ phase' = "skills"
            /\ UNCHANGED <<task, nextCall, activeHashes>>
       ELSE IF config.state = "invalid"
       THEN /\ phase' = "exit"
            /\ UNCHANGED <<task, nextCall, activeHashes>>
       ELSE /\ phase' = "connecting"
            /\ task' = [t \in Tasks |->
                          IF Configured(t)
                          THEN BeginConnect(config.servers[t].name,
                                            ArgsOrEmpty(config.servers[t].args), t)
                          ELSE IdleTask]
            /\ nextCall' = Len(config.servers) + 1
            /\ activeHashes' = {generateServerHash(config.servers[t].name,
                                                  stringify(config.servers[t].args)) :
                                  t \in {u \in 1..Len(config.servers) : Configured(u)}}
    /\ UNCHANGED <<execVars, registryVars, fuseCache, now, envVars, cacheVars, restarts,
                   config, skillsFile, skillsLeft, pipelineVars>>

\* Promise.race in place of Promise.all: the first wrapper to settle ends the wait.
FirstSettled == \E t \in 1..MaxServers : task[t].pc \in {"idle", "done"}

\* await Promise.all(connectionPromises)
AllSettled == \A t \in 1..MaxServers : task[t].pc \in {"idle", "done"}

\* Promise.all over wrappers without their try/catch: one rejection rejects
\* loadConfig, and start() exits.
ConnectionsSettledOrRejected ==
    /\ phase = "connecting"
    /\ AllSettled
    /\ phase' = IF \E t \in 1..MaxServers : task[t].thrown THEN "exit"
                ELSE IF vectorMode THEN "gc" ELSE "skills"
    /\ UNCHANGED <<execVars, registryVars, fuseCache, now, envVars, cacheVars, taskVars, restarts,
                   config, activeHashes, skillsFile, skillsLeft, pipelineVars>>

\* Every wrapper has caught and logged its error: Promise.all resolves; in
\* vector mode cleanupUnusedCache is awaited next.
ConnectionsSettled ==
    /\ phase = "connecting"
    /\ AllSettled
    /\ phase' = IF vectorMode THEN "gc" ELSE "skills"
    /\ UNCHANGED <<execVars, registryVars, fuseCache, now, envVars, cacheVars, taskVars, restarts,
                   config, activeHashes, skillsFile, skillsLeft, pipelineVars>>

\* The two filters of cleanupUnusedCache over the names readdir returned.
JsonFiles == {h \in Hashes : cacheFiles[h].state # "none"}
Unused(hashes) == {h \in JsonFiles : h \notin hashes}

\* The filter `file.endsWith('.json')` dropped: every other file has a base
\* name that is no active hash, and is unlinked too.
OthersKeptByNameOnly(others) == {}

\* The files that are no <hash>.json after the cleanup.
OthersKept(others) == others

\* `await embeddingService.cleanupUnusedCache(activeHashes)` settles.  readdir
\* fails when the directory is missing (ENOENT, ignored) and may fail
\* otherwise (logged); an unlink may fail (logged), the other unlinks have
\* been started all the same.  No error leaves cleanupUnusedCache.
cleanupUnusedCache(dirRead, unlinkFails) ==
    /\ phase = "gc"
    /\ dirRead => cacheDir.exists
    /\ unlinkFails \subseteq (IF dirRead THEN Unused(activeHashes) ELSE {})
    /\ cacheFiles' = [h \in Hashes |->
                        IF dirRead /\ h \in Unused(activeHashes) \ unlinkFails
                        THEN NoFile ELSE cacheFiles[h]]
    /\ cacheDir' = [cacheDir EXCEPT
                        !.others = IF dirRead THEN OthersKept(@) ELSE @,
                        !.cleanupError = (cacheDir.exists /\ ~dirRead) \/ unlinkFails # {}]
    /\ phase' = "skills"
    /\ UNCHANGED <<execVars, registryVars, fuseCache, now, envVars, taskVars, restarts,
                   config, activeHashes, skillsFile, skillsLeft, pipelineVars>>

\* loadSkills: no file, no skills; a file that does not load is logged in the
\* catch of loadSkills; otherwise its skills are registered one after another.
loadSkills ==
    /\ phase = "skills"
    /\ skillsLeft' = IF skillsFile.state = "ok" THEN skillsFile.skills ELSE <<>>
    /\ phase' = "registering"
    /\ UNCHANGED <<execVars, registryVars, fuseCache, now, envVars, cacheVars, taskVars, restarts,
                   config, activeHashes, skillsFile, pipelineVars>>

\* `await this.registry.registerSkill(skill)` of the loop in loadSkills.
RegisterNextSkill ==
    /\ phase = "registering"
    /\ skillsLeft # <<>>
    /\ task[SkillSlot].pc \in {"idle", "done"}
    /\ BeginSkill(SkillSlot, Head(skillsLeft))
    /\ skillsLeft' = Tail(skillsLeft)
    /\ UNCHANGED <<execVars, fuseCache, now, envVars, cacheVars, nextCall, restarts,
                   phase, config, activeHashes, skillsFile, pipelineVars>>

\* registerInternalTools, then `await this.server.connect(transport)`.
Bind(ok) ==
    /\ phase = "registering"
    /\ skillsLeft = <<>>
    /\ task[SkillSlot].pc \in {"idle", "done"}
    /\ phase' = IF ok THEN "bound" ELSE "exit"
    /\ UNCHANGED <<execVars, registryVars, fuseCache, now, envVars, cacheVars, taskVars, restarts,
                   config, activeHashes, skillsFile, skillsLeft, pipelineVars>>

NextStartup ==
    \/ loadConfig
    \/ \E t \in Tasks : ConnectFails(t)
    \/ \E t \in Tasks : ConnectResolves(t)
    \/ \E t \in Tasks : ListFails(t)
    \/ \E t \in Tasks, l \in ToolLists(Names, {1}) : ListResolves(t, l)
    \/ \E t \in Tasks : CacheRead(t)
    \/ \E t \in Tasks, f \in SUBSET (1..MaxTools) : EmbedAndPush(t, f)
    \/ \E t \in Tasks, m \in BOOLEAN, o \in BOOLEAN, w \in BOOLEAN, c \in BOOLEAN :
            SaveSettles(t, m, o, w, c)
    \/ ConnectionsSettled
    \/ \E r \in BOOLEAN, u \in SUBSET Hashes : cleanupUnusedCache(r, u)
    \/ loadSkills
    \/ RegisterNextSkill
    \/ \E t \in Tasks, f \in BOOLEAN : SkillEmbedAndPush(t, f)
    \/ \E ok \in BOOLEAN : Bind(ok)
    \/ fuzzySearch

SpecStartup == InitStartup /\ [][NextStartup]_vars

(***************************************************************************)
(* cleanupUnusedCache over the cache directories an earlier run can leave. *)
(***************************************************************************)
SomeFile == [state |-> "ok", map |-> [EmptyMap EXCEPT !["a"] = EmbeddingOf("a", 1)]]
CorruptFile == [state |-> "corrupt", map |-> EmptyMap]
CacheDirs ==
    {d \in [files : [Hashes -> {NoFile, SomeFile, CorruptFile}],
            dir : [exists : BOOLEAN, others : SUBSET OtherFiles, cleanupError : {FALSE}]] :
        ~d.dir.exists => (d.dir = NoDir /\ \A h \in Hashes : d.files[h] = NoFile)}

\* loadConfig has awaited its connections and calls cleanupUnusedCache.
InitCleanup ==
    /\ modelName = DEFAULT_MODEL
    /\ InitRegistry
    /\ InitPipeline
    /\ InitExec
    /\ now = 1
    /\ vectorMode = TRUE
    /\ \E d \in CacheDirs : cacheFiles = d.files /\ cacheDir = d.dir
    /\ task = [t \in Tasks |-> IdleTask]
    /\ nextCall = 1
    /\ restarts = 0
    /\ phase = "gc"
    /\ config = [state |-> "ok", servers |-> <<>>]
    /\ activeHashes \in SUBSET Hashes
    /\ skillsFile = NoSkillsFile
    /\ skillsLeft = <<>>

NextCleanup == \E r \in BOOLEAN, u \in SUBSET Hashes : cleanupUnusedCache(r, u)

SpecCleanup == InitCleanup /\ [][NextCleanup]_vars

\* C11: a cleanup whose readdir and unlinks succeed removes exactly the
\* <hash>.json files whose hash is not active; whatever fails, the files of
\* active hashes and the files that are no .json stay as they were, and the
\* startup goes on, without an error, also when the directory is missing.
C11_CleanupDeletesExactlyUnused ==
    [][phase = "gc" /\ phase' # "gc" =>
        /\ phase' = "skills"
        /\ cacheDir'.exists = cacheDir.exists
        /\ cacheDir'.others = cacheDir.others
        /\ \A h \in Hashes :
              /\ h \in activeHashes => cacheFiles'[h] = cacheFiles[h]
              /\ cacheFiles'[h] \in {cacheFiles[h], NoFile}
              /\ (cacheDir.exists /\ ~cacheDir'.cleanupError /\ h \notin activeHashes) =>
                    cacheFiles'[h] = NoFile
        /\ ~cacheDir.exists => (cacheFiles' = cacheFiles /\ ~cacheDir'.cleanupError)]_vars

C11_Witness ==
    /\ phase = "skills"
    /\ ~cacheDir.cleanupError
    /\ cacheDir.others = OtherFiles
    /\ \E h, g \in Hashes :
          /\ h \in activeHashes /\ cacheFiles[h] = SomeFile
          /\ g \notin activeHashes /\ cacheFiles[g] = NoFile


(***************************************************************************)
(* skills.ts: resolveValue.  A string is its sequence of characters; a     *)
(* value is tagged with its JavaScript type.                               *)
(***************************************************************************)
MaxPieces == 6
MaxDepth == 2


RECURSIVE Flatten(_)
Flatten(pieces) ==
    IF pieces = <<>> THEN <<>>
    ELSE (CASE Head(pieces) = "{{" -> <<"{", "{">>
            [] Head(pieces) = "}}" -> <<"}", "}">>
            [] OTHER -> <<Head(pieces)>>) \o Flatten(Tail(pieces))

\* String(value): an array joins the strings of its items with ",", an
\* object prints as [object Object].
RECURSIVE StringOf(_)
RECURSIVE JoinStrings(_)
JoinStrings(items) ==
    IF items = <<>> THEN <<>>
    ELSE IF Len(items) = 1 THEN StringOf(items[1])
    ELSE StringOf(items[1]) \o <<",">> \o JoinStrings(Tail(items))
StringOf(val) ==
    CASE val.t = "string" -> val.s
      [] val.t = "number" -> val.s
      [] val.t = "array" -> JoinStrings(val.items)
      [] val.t = "object" -> <<"[object Object]">>
      [] OTHER -> <<"undefined">>

\* context[key]: the context binds names of one character.
Lookup(context, key) ==
    IF Len(key) = 1 /\ key[1] \in DOMAIN context THEN context[key[1]] ELSE Undefined

RECURSIVE TrimLeft(_)
TrimLeft(chars) ==
    IF chars # <<>> /\ Head(chars) = " " THEN TrimLeft(Tail(chars)) ELSE chars
RECURSIVE TrimRight(_)
TrimRight(chars) ==
    IF chars # <<>> /\ chars[Len(chars)] = " "
    THEN TrimRight(SubSeq(chars, 1, Len(chars) - 1)) ELSE chars
Trim(chars) == TrimRight(TrimLeft(chars))

StartsWithOpen(chars) == Len(chars) >= 2 /\ chars[1] = "{" /\ chars[2] = "{"
EndsWithClose(chars) ==
    Len(chars) >= 2 /\ chars[Len(chars) - 1] = "}" /\ chars[Len(chars)] = "}"
\* value.indexOf('{{', 2) === -1
NoSecondOpen(chars) ==
    \A i \in 3..(Len(chars) - 1) : ~(chars[i] = "{" /\ chars[i + 1] = "{")

\* [^}]+ from position j: the length of the run of characters other than }.
RECURSIVE RunLen(_, _)
RunLen(chars, j) ==
    IF j > Len(chars) \/ chars[j] = "}" THEN 0 ELSE 1 + RunLen(chars, j + 1)
\* VARIABLE_REGEX matches at position i.
MatchAt(chars, i) ==
    /\ i + 1 <= Len(chars)
    /\ chars[i] = "{" /\ chars[i + 1] = "{"
    /\ LET k == RunLen(chars, i + 2)
       IN /\ k >= 1
          /\ i + 3 + k <= Len(chars)
          /\ chars[i + 2 + k] = "}" /\ chars[i + 3 + k] = "}"

\* The replacer function of value.replace(VARIABLE_REGEX, ...).
Replacement(key, context) ==
    LET trimmedKey == Trim(key)
        val == Lookup(context, trimmedKey)
    IN IF val # Undefined THEN StringOf(val)
       ELSE <<"{", "{">> \o trimmedKey \o <<"}", "}">>

\* value.replace(VARIABLE_REGEX, replacer) from position i on: every match,
\* leftmost first, none overlapping.
RECURSIVE Replace(_, _, _)
Replace(chars, i, context) ==
    IF i > Len(chars) THEN <<>>
    ELSE IF MatchAt(chars, i)
    THEN LET k == RunLen(chars, i + 2)
         IN Replacement(SubSeq(chars, i + 2, i + 1 + k), context)
              \o Replace(chars, i + 4 + k, context)
    ELSE <<chars[i]>> \o Replace(chars, i + 1, context)

\* The whole-string placeholder printed like any other placeholder.
WholeValueAsText(val) == Str(StringOf(val))

\* What the whole-string branch returns for a defined variable: context[key].
WholeValue(val) == val

\* resolveValue(value, context).
RECURSIVE resolveValue(_, _)
resolveValue(value, context) ==
    CASE value.t = "string" ->
            IF StartsWithOpen(value.s) /\ EndsWithClose(value.s) /\ NoSecondOpen(value.s)
            THEN LET key == Trim(SubSeq(value.s, 3, Len(value.s) - 2))
                 IN IF Lookup(context, key) # Undefined
                    THEN WholeValue(Lookup(context, key)) ELSE value
            ELSE Str(Replace(value.s, 1, context))
      [] value.t = "array" ->
            Arr([i \in 1..Len(value.items) |-> resolveValue(value.items[i], context)])
      [] value.t = "object" ->
            Obj([i \in 1..Len(value.fields) |->
                    Field(value.fields[i].k, resolveValue(value.fields[i].val, context))])
      [] OTHER -> value

\* The values handed to resolveValue: every string of up to MaxPieces
\* pieces, and arrays and objects of a few strings up to MaxDepth deep.
Pieces == {"{{", "}}", "{", "}", "a", " "}
Strings == {Str(Flatten(q)) : q \in SeqsUpTo(Pieces, MaxPieces)}
Leaves == {Str(Flatten(q)) : q \in {<<"{{", "a", "}}">>, <<"{{", " ", "a", " ", "}}">>,
                                    <<"a", "{{", "a", "}}">>}} \cup {Num(<<"7">>)}
RECURSIVE Nested(_)
Nested(depth) ==
    IF depth = 0 THEN Leaves
    ELSE LET inner == Nested(depth - 1)
         IN inner \cup {Arr(<<x>>) : x \in inner} \cup {Obj(<<Field("p", x)>>) : x \in inner}
              \cup {Arr(<<x, y>>) : x \in Leaves, y \in Leaves}
Contexts ==
    {[n \in Names |-> IF n = "a" THEN x ELSE Undefined] :
        x \in {Undefined, Num(<<"7">>), Arr(<<Num(<<"7">>), Num(<<"7">>)>>)}}

InitResolve ==
    /\ modelName = DEFAULT_MODEL
    /\ InitRegistry
    /\ InitPipeline
    /\ call = NoCall
    /\ upstream = <<>>
    /\ search = NoSearch
    /\ saving = NoSave
    /\ subst \in [pc : {"ready"}, value : Strings \cup Nested(MaxDepth),
                  context : Contexts, result : {Undefined}]
    /\ now = 1
    /\ vectorMode = FALSE
    /\ cacheFiles = [h \in Hashes |-> NoFile]
    /\ cacheDir = NoDir
    /\ task = [t \in Tasks |-> IdleTask]
    /\ nextCall = 1
    /\ restarts = 0
    /\ phase = "api"
    /\ config = NoConfig
    /\ activeHashes = {}
    /\ skillsFile = NoSkillsFile
    /\ skillsLeft = <<>>

\* One call resolveValue(value, context) returns.
Substitute ==
    /\ subst.pc = "ready"
    /\ subst' = [subst EXCEPT !.pc = "done",
                              !.result = resolveValue(subst.value, subst.context)]
    /\ UNCHANGED <<registryVars, fuseCache, now, envVars, cacheVars, taskVars, restarts,
                   facadeVars, pipelineVars, call, upstream, search, saving>>

NextResolve == Substitute

SpecResolve == InitResolve /\ [][NextResolve]_vars

\* chars is `{{ name }}`: the braces around one name and spaces only.
IsPlaceholderFor(chars, name) ==
    /\ StartsWithOpen(chars)
    /\ EndsWithClose(chars)
    /\ Len(chars) >= 5
    /\ \E i \in 3..(Len(chars) - 2) :
          /\ chars[i] = name
          /\ \A j \in 3..(Len(chars) - 2) : j # i => chars[j] = " "

RECURSIVE RawValuesPreserved(_, _, _)
RawValuesPreserved(value, result, context) ==
    CASE value.t = "string" ->
            \A n \in Names :
                (IsPlaceholderFor(value.s, n) /\ context[n] # Undefined) =>
                    result = context[n]
      [] value.t = "array" ->
            /\ result.t = "array"
            /\ Len(result.items) = Len(value.items)
            /\ \A i \in 1..Len(value.items) :
                  RawValuesPreserved(value.items[i], result.items[i], context)
      [] value.t = "object" ->
            /\ result.t = "object"
            /\ Len(result.fields) = Len(value.fields)
            /\ \A i \in 1..Len(value.fields) :
                  /\ result.fields[i].k = value.fields[i].k
                  /\ RawValuesPreserved(value.fields[i].val, result.fields[i].val, context)
      [] OTHER -> TRUE

\* C18: a string that is exactly one placeholder of a defined variable
\* resolves to the variable's value itself, type and all, wherever the string
\* sits in the arrays and objects of the resolved value.
C18_WholePlaceholderKeepsRawValue ==
    subst.pc = "done" => RawValuesPreserved(subst.value, subst.result, subst.context)

C18_Witness ==
    /\ subst.pc = "done"
    /\ subst.value = Arr(<<Obj(<<Field("p", Str(<<"{", "{", " ", "a", " ", "}", "}">>))>>)>>)
    /\ subst.context["a"].t = "array"
    /\ subst.result = Arr(<<Obj(<<Field("p", subst.context["a"])>>)>>)

\* A string is a whole-string placeholder of a defined variable.
WholeAndDefined(chars, context) ==
    /\ StartsWithOpen(chars) /\ EndsWithClose(chars) /\ NoSecondOpen(chars)
    /\ Lookup(context, Trim(SubSeq(chars, 3, Len(chars) - 2))) # Undefined

\* C19: every string that is no whole-string placeholder of a defined
\* variable is substituted textually: a placeholder of a defined variable
\* becomes String(value), one of an undefined variable stays as {{name}}.
C19_OtherStringsAreSubstitutedTextually ==
    (subst.pc = "done" /\ subst.value.t = "string"
       /\ ~WholeAndDefined(subst.value.s, subst.context)) =>
        subst.result = Str(Replace(subst.value.s, 1, subst.context))

(***************************************************************************)
(* executor.ts and skills.ts: executeTool and executeSkill, run from one    *)
(* await of an upstream callTool to the next.                              *)
(***************************************************************************)
MaxFrames == 2
MaxSteps == 2

\* obj[key]
GetField(obj, key) ==
    LET hits == SelectSeq(obj.fields, LAMBDA f : f.k = key)
    IN IF hits = <<>> THEN Undefined ELSE hits[1].val

\* obj[key] = val
SetField(obj, key, val) ==
    IF \E i \in 1..Len(obj.fields) : obj.fields[i].k = key
    THEN Obj([i \in 1..Len(obj.fields) |->
                 IF obj.fields[i].k = key THEN Field(key, val) ELSE obj.fields[i]])
    ELSE Obj(Append(obj.fields, Field(key, val)))

\* { ...args }: the context binds the names args has.
ContextOf(args) == [n \in Names |-> GetField(args, n)]

\* The whole result stored under result_var, whatever it holds.
WholeResult(result) == result

\* The value stored under result_var: the text of the first content element
\* of type text when the result has a content array with one, else the result.
ExtractText(result) ==
    IF result.t = "object" /\ GetField(result, "content").t = "array"
    THEN LET texts == SelectSeq(GetField(result, "content").items,
                                LAMBDA c : GetField(c, "type") = Str(<<"text">>))
         IN IF texts # <<>> THEN GetField(texts[1], "text") ELSE result
    ELSE result

\* registry.tools.filter(t => t.name === step.tool)
Candidates(name) == SelectSeq(tools, LAMBDA r : r.name = name)

\* The first record of the step's name, whatever server the step names.
StepToolByNameOnly(step) ==
    IF Candidates(step.tool) = <<>> THEN Absent ELSE Candidates(step.tool)[1]

\* The tool of a step: getTool when the step names a server, else the first
\* record of that name.
StepTool(step) ==
    IF step.server # "none" THEN getTool(step.server, step.tool)
    ELSE IF Candidates(step.tool) = <<>> THEN Absent
    ELSE Candidates(step.tool)[1]

\* The error of a step whose tool is not found: it names the server when the
\* step names one.
NotFound(step) == IF step.server # "none" THEN "not_found_on_server" ELSE "not_found"

\* One entry of executeSkill: the caller's args object, the context copied
\* from it, the step in hand and lastResult.
Frame(skill, args) ==
    [name |-> skill.name, steps |-> skill.steps.list, idx |-> 1, args |-> args,
     context |-> ContextOf(args), lastResult |-> Null]

\* The context sharing the caller's object: `const context = args`.
StoreInArgsToo(frame, var, val) ==
    [frame EXCEPT !.context[var] = val, !.args = SetField(@, var, val)]

\* context[step.result_var] = val
Store(frame, var, val) == [frame EXCEPT !.context[var] = val]

\* The steps in hand, outermost skill first.
Path(frames) == [i \in 1..Len(frames) |-> frames[i].idx]

\* callTool sent to the client of the first record of that name.
RequestByNameOnly(tool, args, frames) ==
    [client |-> Candidates(tool.name)[1].client, name |-> tool.name, args |-> args,
     path |-> Path(frames), state |-> "pending", result |-> Undefined]

\* client.callTool({name, arguments}) as the upstream client receives it.
Request(tool, args, frames) ==
    [client |-> tool.client, name |-> tool.name, args |-> args, path |-> Path(frames),
     state |-> "pending", result |-> Undefined]

\* The handler without its catch: the rejection reaches the MCP client.
FailureUncaught(entry, error) ==
    [kind |-> "thrown", value |-> Undefined, error |-> error]

\* The handler's answer to a rejection of executeTool; executeTool called
\* directly rejects to its caller.
Failure(entry, error) ==
    [kind |-> IF entry = "call_tool" THEN "isError" ELSE "thrown",
     value |-> Undefined, error |-> error]

\* The innermost executeSkill is left.
Pop(c) ==
    [c EXCEPT !.frames = SubSeq(@, 1, Len(@) - 1),
              !.argsAfter = IF Len(c.frames) = 1 THEN c.frames[1].args ELSE @]

\* lastResult holding what was stored under result_var.
LastResultAsText(value) == ExtractText(value)

\* lastResult = result
LastResult(value) == value

RECURSIVE Execute(_, _, _, _, _)
RECURSIVE Proceed(_, _)
RECURSIVE Return(_, _, _)

\* The catch around a step logging the error and going on to the next step.
SwallowAndContinue(c, log, error) ==
    IF c.frames = <<>>
    THEN [call |-> [c EXCEPT !.pc = "done", !.response = Failure(c.entry, error)],
          upstream |-> log]
    ELSE Proceed([c EXCEPT !.frames[Len(c.frames)].idx = @ + 1,
                           !.failedPath = Path(c.frames)], log)

\* An error leaves every executeSkill on the stack: each catch rethrows it.
Throw(c, log, error) ==
    [call |-> [c EXCEPT !.pc = "done", !.frames = <<>>, !.failedPath = Path(c.frames),
                        !.argsAfter = IF c.frames # <<>> THEN c.frames[1].args ELSE @,
                        !.response = Failure(c.entry, error)],
     upstream |-> log]

\* The handler returning what executeTool resolved with.
Respond(value) == [kind |-> "result", value |-> value, error |-> "none"]

\* No test of the client handle.
HasClientUnchecked(tool) == TRUE

\* if (!tool.client) throw
HasClient(tool) == tool.client # NoClient

\* A test that refuses a skill which is already being executed.
RefusesSkillInProgress(frames, tool) ==
    \E k \in 1..Len(frames) : frames[k].name = tool.name

\* The test executeTool makes of the skills in progress before it enters
\* executeSkill: there is none.
RecursionGuard(frames, tool) == FALSE

\* executeTool(tool, args, registry) and what follows it up to the next
\* await of an upstream callTool, or to the end of the request.
Execute(c, log, tool, args, hasRegistry) ==
    IF tool.isSkill
    THEN IF ~hasRegistry THEN Throw(c, log, "no_registry")
         ELSE IF ~tool.steps.defined THEN Throw(c, log, "no_steps")
         ELSE IF RecursionGuard(c.frames, tool) THEN Throw(c, log, "recursion")
         ELSE IF Len(c.frames) = MaxFrames
         THEN [call |-> [c EXCEPT !.pc = "deep"], upstream |-> log]
         ELSE Proceed([c EXCEPT !.frames = Append(@, Frame(tool, args))], log)
    ELSE IF ~HasClient(tool) THEN Throw(c, log, "no_client")
    ELSE [call |-> [c EXCEPT !.pc = "awaiting"],
          upstream |-> Append(log, Request(tool, args, c.frames))]

\* The loop of the innermost executeSkill at its step in hand.
Proceed(c, log) ==
    LET top == c.frames[Len(c.frames)]
    IN IF top.idx > Len(top.steps)
       THEN Return(Pop(c), log, top.lastResult)
       ELSE LET step == top.steps[top.idx]
                stepArgs == resolveValue(step.args, top.context)
                tool == StepTool(step)
            IN IF tool = Absent THEN Throw(c, log, NotFound(step))
               ELSE Execute(c, log, tool, stepArgs, TRUE)

\* executeTool resolved with value: the request ends, or the step that
\* awaited it stores the value and the loop goes on.
Return(c, log, value) ==
    IF c.frames = <<>>
    THEN [call |-> [c EXCEPT !.pc = "done", !.response = Respond(value)], upstream |-> log]
    ELSE LET n == Len(c.frames)
             top == c.frames[n]
             step == top.steps[top.idx]
             stored == IF step.result_var # "none"
                       THEN Store(top, step.result_var, ExtractText(value)) ELSE top
         IN Proceed([c EXCEPT !.frames[n] =
                        [stored EXCEPT !.lastResult = LastResult(value), !.idx = top.idx + 1]], log)

(***************************************************************************)
(* The call_tool handler over the registries a startup can leave: tools of *)
(* two upstream servers, then skills.                                     *)
(***************************************************************************)
StepArgs == Obj(<<Field("a", Str(<<"{", "{", "a", "}", "}">>))>>)
Steps == [tool : Names, server : {"none", "s2", "internal"}, args : {StepArgs},
          result_var : {"none", "a"}]
SkillLists ==
    {<<>>}
    \cup {<<[name |-> "b", def |-> 1, steps |-> q]>> : q \in SeqsUpTo(Steps, MaxSteps)}
    \cup {<<[name |-> "a", def |-> 1, steps |-> q], [name |-> "b", def |-> 1, steps |-> r]>> :
            q \in SeqsUpTo(Steps, 1), r \in SeqsUpTo(Steps, 1)}

UpstreamRecords(serverName, names, client) ==
    [i \in 1..Len(names) |->
        ToolRecord(serverName, [name |-> names[i], def |-> 1], client, NoEmb)]
SkillRecords(skills) == [i \in 1..Len(skills) |-> SkillRecord(skills[i], NoEmb)]

InitCall ==
    /\ modelName = DEFAULT_MODEL
    /\ \E l1 \in {<<>>, <<"a">>, <<"a", "b">>}, l2 \in {<<>>, <<"a">>}, skills \in SkillLists :
          /\ tools = UpstreamRecords("s1", l1, 1) \o UpstreamRecords("s2", l2, 2)
                        \o SkillRecords(skills)
          /\ toolMap = IndexAll(IndexAll(IndexAll(EmptyIndex,
                                    "s1", l1, UpstreamRecords("s1", l1, 1)),
                                    "s2", l2, UpstreamRecords("s2", l2, 2)),
                                    "internal", ListedNames(skills), SkillRecords(skills))
    /\ now = 1
    /\ updatedAt = 1
    /\ fuseCache = NoFuse
    /\ InitPipeline
    /\ InitExec
    /\ vectorMode = FALSE
    /\ cacheFiles = [h \in Hashes |-> NoFile]
    /\ cacheDir = NoDir
    /\ task = [t \in Tasks |-> IdleTask]
    /\ nextCall = 1
    /\ restarts = 0
    /\ phase = "bound"
    /\ config = NoConfig
    /\ activeHashes = {}
    /\ skillsFile = NoSkillsFile
    /\ skillsLeft = <<>>

\* A request as it starts.
Started(entry, server, toolName, args, tool, hasRegistry) ==
    [NoCall EXCEPT !.pc = "run", !.entry = entry, !.server = server,
                   !.toolName = toolName, !.args = args, !.argsAfter = args,
                   !.tool = tool, !.hasRegistry = hasRegistry]

\* The handler answering without an error flag.
NotFoundAsResult == Respond(Undefined)

\* The handler's answer when getTool finds nothing.
NotFoundResponse == [kind |-> "isError", value |-> Undefined, error |-> "not_found"]

\* `arguments` is optional: args || {}
OrEmpty(args) == IF args = Undefined THEN Obj(<<>>) ELSE args

\* A call_tool request arrives and runs up to its first await.
call_tool(server, toolName, args) ==
    /\ phase = "bound"
    /\ call.pc = "idle"
    /\ LET tool == getTool(server, toolName)
           c == Started("call_tool", server, toolName, OrEmpty(args), tool, TRUE)
           next == IF tool = Absent
                   THEN [call |-> [c EXCEPT !.pc = "done", !.response = NotFoundResponse],
                         upstream |-> upstream]
                   ELSE Execute(c, upstream, tool, OrEmpty(args), TRUE)
       IN call' = next.call /\ upstream' = next.upstream
    /\ UNCHANGED <<registryVars, fuseCache, now, envVars, cacheVars, taskVars, restarts,
                   facadeVars, pipelineVars, subst, search, saving>>

\* Records a caller of executeTool can make by hand: an upstream tool without
\* its client, a skill without its steps.
HandMade ==
    {ToolRecord("s1", [name |-> "a", def |-> 1], NoClient, NoEmb),
     [SkillRecord([name |-> "b", def |-> 1, steps |-> <<>>], NoEmb) EXCEPT !.steps = NoSteps]}

\* executeTool called directly, as the exported function it is.
executeTool(tool, args, hasRegistry) ==
    /\ phase = "bound"
    /\ call.pc = "idle"
    /\ LET c == Started("executeTool", tool.server, tool.name, args, tool, hasRegistry)
           next == Execute(c, upstream, tool, args, hasRegistry)
       IN call' = next.call /\ upstream' = next.upstream
    /\ UNCHANGED <<registryVars, fuseCache, now, envVars, cacheVars, taskVars, restarts,
                   facadeVars, pipelineVars, subst, search, saving>>

TextResult ==
    Obj(<<Field("content",
            Arr(<<Obj(<<Field("type", Str(<<"text">>)), Field("text", Str(<<"T">>))>>)>>))>>)
ImageResult == Obj(<<Field("content", Arr(<<Obj(<<Field("type", Str(<<"image">>))>>)>>))>>)
\* A result whose first element of type text is not its first element.
MixedResult ==
    Obj(<<Field("content",
            Arr(<<Obj(<<Field("type", Str(<<"image">>))>>),
                  Obj(<<Field("type", Str(<<"text">>)), Field("text", Str(<<"U">>))>>),
                  Obj(<<Field("type", Str(<<"text">>)), Field("text", Str(<<"T">>))>>)>>))>>)
UpstreamResults == {TextResult, ImageResult, MixedResult}

\* The awaited callTool resolves with a result.
UpstreamResolves(result) ==
    /\ call.pc = "awaiting"
    /\ LET log == [upstream EXCEPT ![Len(upstream)].state = "resolved",
                                   ![Len(upstream)].result = result]
           next == Return(call, log, result)
       IN call' = next.call /\ upstream' = next.upstream
    /\ UNCHANGED <<registryVars, fuseCache, now, envVars, cacheVars, taskVars, restarts,
                   facadeVars, pipelineVars, subst, search, saving>>

\* The awaited callTool rejects.
UpstreamRejects ==
    /\ call.pc = "awaiting"
    /\ LET log == [upstream EXCEPT ![Len(upstream)].state = "rejected"]
           next == Throw(call, log, "rejected")
       IN call' = next.call /\ upstream' = next.upstream
    /\ UNCHANGED <<registryVars, fuseCache, now, envVars, cacheVars, taskVars, restarts,
                   facadeVars, pipelineVars, subst, search, saving>>

CallArgs == {Undefined, Obj(<<Field("a", Str(<<"x">>))>>)}

NextCall ==
    \/ \E sv \in CallServers \cup {"internal"}, n \in Names, a \in CallArgs :
          call_tool(sv, n, a)
    \/ \E r \in {tools[i] : i \in 1..Len(tools)} \cup HandMade, a \in CallArgs \ {Undefined},
          g \in BOOLEAN : executeTool(r, a, g)
    \/ \E r \in UpstreamResults : UpstreamResolves(r)
    \/ UpstreamRejects

SpecCall == InitCall /\ [][NextCall]_vars

\* Every upstream callTool completes: a pending request is answered or fails.
UpstreamCompletes == UpstreamRejects \/ \E r \in UpstreamResults : UpstreamResolves(r)
SpecCallFair == InitCall /\ [][NextCall]_vars /\ WF_vars(UpstreamCompletes)

(***************************************************************************)
(* search.ts: searchTools, vectorSearch and fuzzySearch.                   *)
(***************************************************************************)
MaxPool == 3        \* records the registry holds when it is searched
MaxLimit == 3       \* largest limit a caller passes
MaxWords == 2       \* tokens of a query

VECTOR_THRESHOLD == 35
FUSE_THRESHOLD == 4

\* The records a search can meet, each with an embedding of its own.
PoolKeys == <<<<"s1", "a">>, <<"s1", "b">>, <<"s2", "a">>, <<"s2", "b">>>>
PoolDefs == <<1, 1, 2, 2>>
Embeddings == [i \in 1..Len(PoolKeys) |-> EmbeddingOf(PoolKeys[i][2], PoolDefs[i])]
EmbeddingIndex(e) == CHOOSE i \in 1..Len(Embeddings) : Embeddings[i] = e

\* The dot product of the two vectors.
cosineSimilarity(queryEmbedding, embedding) == queryEmbedding[EmbeddingIndex(embedding)]

\* The position a stable sort gives x, appended to a sorted list: before the
\* first entry that Later puts after x.
InsertAt(sorted, x, later) ==
    LET k == IF later = {} THEN Len(sorted) + 1
             ELSE CHOOSE i \in later : \A j \in later : i <= j
    IN SubSeq(sorted, 1, k - 1) \o <<x>> \o SubSeq(sorted, k, Len(sorted))

\* results.sort((a, b) => b.score - a.score)
RECURSIVE SortByScore(_)
SortByScore(results) ==
    IF results = <<>> THEN <<>>
    ELSE LET n == Len(results)
             sorted == SortByScore(SubSeq(results, 1, n - 1))
         IN InsertAt(sorted, results[n],
                     {i \in 1..Len(sorted) : results[n].score - sorted[i].score > 0})

\* The loop moving the replaced entry also past a neighbour of its own score.
RECURSIVE BubbleUpPastEqual(_, _)
BubbleUpPastEqual(results, i) ==
    IF i > 1 /\ results[i].score >= results[i - 1].score
    THEN BubbleUpPastEqual([results EXCEPT ![i] = results[i - 1], ![i - 1] = results[i]],
                           i - 1)
    ELSE results

\* The loop that moves the replaced last entry up while it beats its neighbour.
RECURSIVE BubbleUp(_, _)
BubbleUp(results, i) ==
    IF i > 1 /\ results[i].score > results[i - 1].score
    THEN BubbleUp([results EXCEPT ![i] = results[i - 1], ![i - 1] = results[i]], i - 1)
    ELSE results

\* The threshold test letting the threshold itself pass.
AtOrAboveThreshold(score) == score >= VECTOR_THRESHOLD

\* score > VECTOR_THRESHOLD
AboveThreshold(score) == score > VECTOR_THRESHOLD

\* The for loop of vectorSearch from record i on.
RECURSIVE Scan(_, _, _, _, _)
Scan(pool, i, results, queryEmbedding, limit) ==
    IF i > Len(pool) THEN results
    ELSE IF pool[i].embedding = NoEmb THEN Scan(pool, i + 1, results, queryEmbedding, limit)
    ELSE LET score == cosineSimilarity(queryEmbedding, pool[i].embedding)
             entry == [tool |-> pool[i], score |-> score]
             n == Len(results)
         IN IF ~AboveThreshold(score) THEN Scan(pool, i + 1, results, queryEmbedding, limit)
            ELSE IF n < limit
            THEN Scan(pool, i + 1, SortByScore(Append(results, entry)), queryEmbedding, limit)
            ELSE IF score > results[n].score
            THEN Scan(pool, i + 1, BubbleUp([results EXCEPT ![n] = entry], n),
                      queryEmbedding, limit)
            ELSE Scan(pool, i + 1, results, queryEmbedding, limit)

\* results.map(r => r.tool)
ItemsOf(results) == [i \in 1..Len(results) |-> results[i].tool]

\* fuse.search: the indexed records scoring within the threshold, best first.
RECURSIVE FuseSearch(_, _, _)
FuseSearch(index, scores, i) ==
    IF i > Len(index) THEN <<>>
    ELSE LET rest == FuseSearch(index, scores, i + 1)
             hit == [tool |-> index[i], score |-> scores[i], at |-> i]
         IN IF scores[i] > FUSE_THRESHOLD THEN rest
            ELSE InsertAt(rest, hit, {j \in 1..Len(rest) : rest[j].score > scores[i]})

\* `${server}:${name}`
SeenKey(r) == <<r.server, r.name>>

\* wordResults.forEach pushing every result of the word, seen or not.
PushAll(results, wordResults) == results \o wordResults

\* wordResults.forEach: push what is not seen yet.
RECURSIVE PushUnseen(_, _)
PushUnseen(results, wordResults) ==
    IF wordResults = <<>> THEN results
    ELSE IF \E i \in 1..Len(results) : SeenKey(results[i].tool) = SeenKey(Head(wordResults).tool)
    THEN PushUnseen(results, Tail(wordResults))
    ELSE PushUnseen(Append(results, Head(wordResults)), Tail(wordResults))

\* for (const word of words)
RECURSIVE PerWord(_, _, _)
PerWord(results, index, words) ==
    IF words = <<>> THEN results
    ELSE PerWord(PushUnseen(results, FuseSearch(index, Head(words), 1)), index, Tail(words))

\* The comparator of sortFuzzyResults: weights further apart than 0.1 decide,
\* else the Fuse score.
Compare(a, b, weight) ==
    LET weightA == weight[a.at]
        weightB == weight[b.at]
        apart == IF weightA > weightB THEN weightA - weightB ELSE weightB - weightA
    IN IF apart > 1 THEN weightB - weightA ELSE a.score - b.score

RECURSIVE sortFuzzyResults(_, _)
sortFuzzyResults(results, weight) ==
    IF results = <<>> THEN <<>>
    ELSE LET n == Len(results)
             sorted == sortFuzzyResults(SubSeq(results, 1, n - 1), weight)
         IN InsertAt(sorted, results[n],
                     {i \in 1..Len(sorted) : Compare(sorted[i], results[n], weight) > 0})

\* Array.prototype.slice(0, end): a negative end counts from the end.
Slice(q, end) ==
    LET last == IF end < 0 THEN Len(q) + end ELSE end
    IN SubSeq(q, 1, IF last > Len(q) THEN Len(q) ELSE IF last < 0 THEN 0 ELSE last)

\* What fuzzySearch returns from the Fuse instance over index.
FuzzyResults(index, query, limit) ==
    LET whole == FuseSearch(index, query.phrase, 1)
        merged == IF Len(whole) < limit THEN PerWord(whole, index, query.words) ELSE whole
        sorted == IF Len(merged) > 0 THEN sortFuzzyResults(merged, query.weight) ELSE merged
    IN ItemsOf(Slice(sorted, limit))

\* The Fuse instance and its stamp after a fuzzy search.
FuseAfterSearch ==
    IF CacheHit THEN fuseCache
    ELSE [present |-> TRUE, updatedAt |-> updatedAt, instance |-> tools]

\* searchTools(registry, query, limit) up to its first await, or to its end.
searchTools(query, limit) ==
    /\ phase = "bound"
    /\ search.pc = "idle"
    /\ IF vectorMode
       THEN /\ search' = IF limit <= 0
                         THEN [pc |-> "returned", limit |-> limit, query |-> query,
                               results |-> <<>>]
                         ELSE [pc |-> "embedding", limit |-> limit, query |-> query,
                               results |-> <<>>]
            /\ UNCHANGED fuseCache
       ELSE /\ fuseCache' = FuseAfterSearch
            /\ search' = [pc |-> "returned", limit |-> limit, query |-> query,
                          results |-> FuzzyResults(FuseAfterSearch.instance, query, limit)]
    /\ UNCHANGED <<registryVars, now, envVars, cacheVars, taskVars, restarts,
                   facadeVars, pipelineVars, call, upstream, subst, saving>>

\* generateEmbedding(query) resolves: the records are scored and ranked.
QueryEmbedded ==
    /\ search.pc = "embedding"
    /\ search' = [search EXCEPT !.pc = "returned",
                                !.results = ItemsOf(Scan(tools, 1, <<>>, search.query.dots,
                                                         search.limit))]
    /\ UNCHANGED <<registryVars, fuseCache, now, envVars, cacheVars, taskVars, restarts,
                   facadeVars, pipelineVars, call, upstream, subst, saving>>

\* generateEmbedding(query) rejects, and searchTools with it.
QueryEmbeddingFails ==
    /\ search.pc = "embedding"
    /\ search' = [search EXCEPT !.pc = "thrown"]
    /\ UNCHANGED <<registryVars, fuseCache, now, envVars, cacheVars, taskVars, restarts,
                   facadeVars, pipelineVars, call, upstream, subst, saving>>

\* The registries a search can meet: records of two servers, in vector mode
\* with or without an embedding each.
Pools(vector) ==
    UNION {[1..n -> IF vector THEN BOOLEAN ELSE {FALSE}] : n \in 0..MaxPool}
PoolRecords(embedded) ==
    [i \in 1..Len(embedded) |->
        ToolRecord(PoolKeys[i][1], [name |-> PoolKeys[i][2], def |-> PoolDefs[i]], i,
                   IF embedded[i] THEN Embeddings[i] ELSE NoEmb)]
RECURSIVE IndexPool(_, _, _)
IndexPool(map, records, i) ==
    IF i > Len(records) THEN map
    ELSE IndexPool([map EXCEPT ![SeenKey(records[i])] = records[i]], records, i + 1)

Scores == {0, VECTOR_THRESHOLD, VECTOR_THRESHOLD + 1, 50}
FuseScores == {0, 2, 9}
Weights == {0, 10}
Limits == (1 - MaxLimit)..MaxLimit
VectorQueries == [dots : [1..MaxPool -> Scores], phrase : {<<>>}, words : {<<>>},
                  weight : {<<>>}]
FuseQueries(n) ==
    [dots : {<<>>}, phrase : [1..n -> FuseScores],
     words : UNION {[1..w -> [1..n -> {2, 9}]] : w \in 0..MaxWords},
     weight : [1..n -> Weights]]

InitSearch ==
    /\ modelName = DEFAULT_MODEL
    /\ vectorMode \in BOOLEAN
    /\ \E pool \in Pools(vectorMode) :
          /\ tools = PoolRecords(pool)
          /\ toolMap = IndexPool(EmptyIndex, PoolRecords(pool), 1)
    /\ now = 1
    /\ updatedAt = 1
    /\ fuseCache = NoFuse
    /\ InitPipeline
    /\ InitExec
    /\ cacheFiles = [h \in Hashes |-> NoFile]
    /\ cacheDir = NoDir
    /\ task = [t \in Tasks |-> IdleTask]
    /\ nextCall = 1
    /\ restarts = 0
    /\ phase = "bound"
    /\ config = NoConfig
    /\ activeHashes = {}
    /\ skillsFile = NoSkillsFile
    /\ skillsLeft = <<>>

NextSearch ==
    \/ /\ search.pc = "idle"
       /\ \E l \in Limits :
             \E q \in IF vectorMode THEN VectorQueries ELSE FuseQueries(Len(tools)) :
                 searchTools(q, l)
    \/ QueryEmbedded
    \/ QueryEmbeddingFails

SpecSearch == InitSearch /\ [][NextSearch]_vars

(***************************************************************************)
(* EmbeddingService.saveEmbeddingsToCache write by write, and the          *)
(* JSON.parse of getCachedEmbeddings.  A text is a sequence of tokens: a   *)
(* punctuation mark, a string literal or a number, each with the number of *)
(* characters it takes.                                                    *)
(***************************************************************************)
MaxEntries == 3     \* most keys of a map that is saved
BUFFER_SIZE == 1048576

Punct(ch) == [t |-> "punct", s |-> ch, v |-> 0, len |-> 1]
\* JSON.stringify(key): the key between quotes.
Quoted(key) == [t |-> "string", s |-> key.id, v |-> 0, len |-> key.len + 2]
\* A number of one digit.
Digit(d) == [t |-> "number", s |-> "", v |-> d, len |-> 1]

\* texts.join(sep)
RECURSIVE Join(_, _)
Join(texts, sep) ==
    IF texts = <<>> THEN <<>>
    ELSE IF Len(texts) = 1 THEN texts[1]
    ELSE texts[1] \o <<sep>> \o Join(Tail(texts), sep)

\* JSON.stringify(Array.from(value))
ArrayText(value) ==
    <<Punct("[")>> \o Join([j \in 1..Len(value) |-> <<Digit(value[j])>>], Punct(","))
                   \o <<Punct("]")>>

\* `${JSON.stringify(key)}:${JSON.stringify(arrayValue)}`
EntryText(key, value) == <<Quoted(key), Punct(":")>> \o ArrayText(value)

\* text.length
RECURSIVE Length(_)
Length(text) == IF text = <<>> THEN 0 ELSE Head(text).len + Length(Tail(text))

\* The separator written after every flush, the last one included.
NeedsCommaAfterEveryFlush(i, n) == TRUE

\* Whether a flush at entry i of n is followed by a separator of its own.
NeedsComma(i, n) == i < n

\* saveEmbeddingsToCache up to the loop: the file is opened for writing (and
\* emptied by it) and takes the opening brace.
saveEmbeddingsToCache ==
    /\ saving.pc = "ready"
    /\ saving' = [saving EXCEPT !.pc = "loop", !.i = 1, !.file = <<Punct("{")>>]
    /\ UNCHANGED <<registryVars, fuseCache, now, envVars, cacheVars, taskVars, restarts,
                   facadeVars, pipelineVars, call, upstream, subst, search>>

\* One turn of the loop over the keys: the entry joins the chunks, and the
\* chunks are written out once they hold BUFFER_SIZE characters.
WriteEntry ==
    /\ saving.pc = "loop"
    /\ saving.i <= Len(saving.embeddings)
    /\ LET i == saving.i
           n == Len(saving.embeddings)
           entry == EntryText(saving.embeddings[i].key, saving.embeddings[i].value)
           chunks == Append(saving.chunks, entry)
           currentChunkSize == saving.currentChunkSize + Length(entry)
       IN saving' =
            IF currentChunkSize >= BUFFER_SIZE
            THEN [saving EXCEPT
                    !.file = saving.file \o Join(chunks, Punct(","))
                             \o (IF NeedsComma(i, n) THEN <<Punct(",")>> ELSE <<>>),
                    !.chunks = <<>>, !.currentChunkSize = 0,
                    !.flushed = saving.flushed \cup {i}, !.i = i + 1]
            ELSE [saving EXCEPT !.chunks = chunks,
                                !.currentChunkSize = currentChunkSize, !.i = i + 1]
    /\ UNCHANGED <<registryVars, fuseCache, now, envVars, cacheVars, taskVars, restarts,
                   facadeVars, pipelineVars, call, upstream, subst, search>>

\* After the loop: what is left in the chunks, the closing brace, the close.
WriteRest ==
    /\ saving.pc = "loop"
    /\ saving.i > Len(saving.embeddings)
    /\ saving' = [saving EXCEPT
                    !.pc = "saved", !.chunks = <<>>,
                    !.file = saving.file
                             \o (IF Len(saving.chunks) > 0
                                 THEN Join(saving.chunks, Punct(",")) ELSE <<>>)
                             \o <<Punct("}")>>]
    /\ UNCHANGED <<registryVars, fuseCache, now, envVars, cacheVars, taskVars, restarts,
                   facadeVars, pipelineVars, call, upstream, subst, search>>

\* JSON.parse of an array of numbers from position p, after its first item
\* was found to be there.
ArrayFailed == [ok |-> FALSE, items |-> <<>>, next |-> 0]
RECURSIVE ParseItems(_, _, _)
ParseItems(text, p, items) ==
    IF p + 1 > Len(text) \/ text[p].t # "number" THEN ArrayFailed
    ELSE IF text[p + 1] = Punct("]")
         THEN [ok |-> TRUE, items |-> Append(items, text[p].v), next |-> p + 2]
    ELSE IF text[p + 1] = Punct(",")
         THEN ParseItems(text, p + 2, Append(items, text[p].v))
    ELSE ArrayFailed

ParseArray(text, p) ==
    IF p + 1 > Len(text) \/ text[p] # Punct("[") THEN ArrayFailed
    ELSE IF text[p + 1] = Punct("]") THEN [ok |-> TRUE, items |-> <<>>, next |-> p + 2]
    ELSE ParseItems(text, p + 1, <<>>)

\* A key that comes again replaces the value where the key stands.
Put(entries, key, value) ==
    IF \E j \in 1..Len(entries) : entries[j].key = key
    THEN [j \in 1..Len(entries) |->
            IF entries[j].key = key THEN [key |-> key, value |-> value] ELSE entries[j]]
    ELSE Append(entries, [key |-> key, value |-> value])

\* JSON.parse of the members of an object from position p: a string, a colon
\* and an array, then a comma and more members or the brace that ends the text.
RECURSIVE ParseMembers(_, _, _)
ParseMembers(text, p, entries) ==
    IF p + 1 > Len(text) \/ text[p].t # "string" \/ text[p + 1] # Punct(":") THEN NoLoaded
    ELSE LET array == ParseArray(text, p + 2)
             q == array.next
             key == [id |-> text[p].s, len |-> text[p].len - 2]
         IN IF ~array.ok \/ q > Len(text) THEN NoLoaded
            ELSE IF text[q] = Punct("}")
                 THEN IF q = Len(text)
                      THEN [hit |-> TRUE, entries |-> Put(entries, key, array.items)]
                      ELSE NoLoaded
            ELSE IF text[q] = Punct(",")
                 THEN ParseMembers(text, q + 1, Put(entries, key, array.items))
            ELSE NoLoaded

\* getCachedEmbeddings on a file with the text `data`: every parsed array as
\* a Float32Array under its key, or null (hit = FALSE) when JSON.parse throws.
typedEmbeddings(data) ==
    IF Len(data) < 2 \/ data[1] # Punct("{") THEN NoLoaded
    ELSE IF data[2] = Punct("}")
         THEN IF Len(data) = 2 THEN [hit |-> TRUE, entries |-> <<>>] ELSE NoLoaded
    ELSE ParseMembers(data, 2, <<>>)

\* getCachedEmbeddings(serverHash) after the save.
ReadBack ==
    /\ saving.pc = "saved"
    /\ saving' = [saving EXCEPT !.pc = "read", !.loaded = typedEmbeddings(saving.file)]
    /\ UNCHANGED <<registryVars, fuseCache, now, envVars, cacheVars, taskVars, restarts,
                   facadeVars, pipelineVars, call, upstream, subst, search>>

\* The maps a save is given: keys of a few characters or of half or all of
\* BUFFER_SIZE, vectors of none to two elements.
SaveKeys == <<"a", "b", "c", "d">>
KeyLengths == {1, BUFFER_SIZE \div 2, BUFFER_SIZE}
Vectors == {<<>>, <<1>>, <<2, 1>>}
Maps ==
    UNION {{[j \in 1..n |-> [key |-> [id |-> SaveKeys[j], len |-> lens[j]],
                             value |-> values[j]]] :
                lens \in [1..n -> KeyLengths], values \in [1..n -> Vectors]} :
           n \in 0..MaxEntries}

InitSave ==
    /\ modelName = DEFAULT_MODEL
    /\ InitRegistry
    /\ InitPipeline
    /\ call = NoCall
    /\ upstream = <<>>
    /\ subst = NoSubst
    /\ search = NoSearch
    /\ saving \in {[NoSave EXCEPT !.pc = "ready", !.embeddings = m] : m \in Maps}
    /\ now = 1
    /\ vectorMode = TRUE
    /\ cacheFiles = [h \in Hashes |-> NoFile]
    /\ cacheDir = NoDir
    /\ task = [t \in Tasks |-> IdleTask]
    /\ nextCall = 1
    /\ restarts = 0
    /\ phase = "api"
    /\ config = NoConfig
    /\ activeHashes = {}
    /\ skillsFile = NoSkillsFile
    /\ skillsLeft = <<>>

NextSave ==
    \/ saveEmbeddingsToCache
    \/ WriteEntry
    \/ WriteRest
    \/ ReadBack

SpecSave == InitSave /\ [][NextSave]_vars

(***************************************************************************)
(* EmbeddingService: getPipeline and generateEmbedding.  A load is the     *)
(* promise of one pipeline('feature-extraction', modelName) call.          *)
(***************************************************************************)
UnusedLoads == {l \in Loads : loads[l] = "unused"}
Least(S) == CHOOSE x \in S : \A y \in S : x <= y

\* getPipeline starting a load whenever no pipeline is stored yet.
StartsLoadUnlessLoaded == pipeline = 0

\* `if (!this.pipelinePromise)`: getPipeline starts a load.
StartsLoad == pipelinePromise = 0

\* A failed load that leaves its promise stored.
PromiseKeptAfterFailure == pipelinePromise

\* `this.pipelinePromise = null` in the catch of the load.
PromiseAfterFailure == 0

\* generateEmbedding up to `await this.getPipeline()`.
generateEmbedding(c) ==
    /\ caller[c].pc = "idle"
    /\ IF pipeline # 0
       THEN /\ caller' = [caller EXCEPT ![c] = [pc |-> "extract", awaits |-> 0]]
            /\ UNCHANGED <<pipelinePromise, loads>>
       ELSE IF StartsLoad
       THEN /\ UnusedLoads # {}
            /\ loads' = [loads EXCEPT ![Least(UnusedLoads)] = "pending"]
            /\ pipelinePromise' = Least(UnusedLoads)
            /\ caller' = [caller EXCEPT ![c] = [pc |-> "await", awaits |-> Least(UnusedLoads)]]
       ELSE /\ caller' = [caller EXCEPT ![c] = [pc |-> "await", awaits |-> pipelinePromise]]
            /\ UNCHANGED <<pipelinePromise, loads>>
    /\ UNCHANGED <<execVars, registryVars, fuseCache, now, envVars, cacheVars, taskVars, restarts,
                   facadeVars, pipeline>>

\* The model is loaded: `this.pipeline = p`.
LoadResolves(l) ==
    /\ loads[l] = "pending"
    /\ loads' = [loads EXCEPT ![l] = "resolved"]
    /\ pipeline' = l
    /\ UNCHANGED <<execVars, registryVars, fuseCache, now, envVars, cacheVars, taskVars, restarts,
                   facadeVars, pipelinePromise, caller>>

\* The load fails: the catch clears pipelinePromise and rethrows.
LoadRejects(l) ==
    /\ loads[l] = "pending"
    /\ loads' = [loads EXCEPT ![l] = "rejected"]
    /\ pipelinePromise' = PromiseAfterFailure
    /\ UNCHANGED <<execVars, registryVars, fuseCache, now, envVars, cacheVars, taskVars, restarts,
                   facadeVars, pipeline, caller>>

\* `await this.getPipeline()` settles for one caller.
PipelineSettles(c) ==
    /\ caller[c].pc = "await"
    /\ loads[caller[c].awaits] # "pending"
    /\ caller' = [caller EXCEPT ![c].pc = IF loads[caller[c].awaits] = "resolved"
                                          THEN "extract" ELSE "error"]
    /\ UNCHANGED <<execVars, registryVars, fuseCache, now, envVars, cacheVars, taskVars, restarts,
                   facadeVars, pipeline, pipelinePromise, loads>>

\* `await extractor(text, ...)` settles.
ExtractSettles(c, ok) ==
    /\ caller[c].pc = "extract"
    /\ caller' = [caller EXCEPT ![c].pc = IF ok THEN "result" ELSE "error"]
    /\ UNCHANGED <<execVars, registryVars, fuseCache, now, envVars, cacheVars, taskVars, restarts,
                   facadeVars, pipeline, pipelinePromise, loads>>

\* The caller has its vector or its error.
EmbeddingReturns(c) ==
    /\ caller[c].pc \in {"result", "error"}
    /\ caller' = [caller EXCEPT ![c] = [pc |-> "idle", awaits |-> 0]]
    /\ UNCHANGED <<execVars, registryVars, fuseCache, now, envVars, cacheVars, taskVars, restarts,
                   facadeVars, pipeline, pipelinePromise, loads>>

NextPipeline ==
    \/ \E c \in Callers : generateEmbedding(c)
    \/ \E l \in Loads : LoadResolves(l)
    \/ \E l \in Loads : LoadRejects(l)
    \/ \E c \in Callers : PipelineSettles(c)
    \/ \E c \in Callers, ok \in BOOLEAN : ExtractSettles(c, ok)
    \/ \E c \in Callers : EmbeddingReturns(c)

SpecPipeline == InitVector /\ [][NextPipeline]_vars

(***************************************************************************)
(* Properties of the embedding service.                                    *)
(***************************************************************************)
Pending == {l \in Loads : loads[l] = "pending"}
LoadStarts(l) == loads[l] = "unused" /\ loads'[l] = "pending"

\* C8: a model load is started only when none is in flight and no pipeline
\* is loaded; so at most one load is in flight, every caller waiting for a
\* load in flight waits for that one, and none starts after a success.
C8_SingleModelLoad ==
    /\ [](/\ Cardinality(Pending) <= 1
          /\ \A c \in Callers :
                (caller[c].pc = "await" /\ loads[caller[c].awaits] = "pending") =>
                    caller[c].awaits = pipelinePromise
          /\ (\E l \in Loads : loads[l] = "resolved") => pipeline # 0)
    /\ [][\A l \in Loads : LoadStarts(l) => (Pending = {} /\ pipeline = 0)]_vars

C8_Witness ==
    /\ Cardinality(Pending) = 1
    /\ \A c \in Callers : caller[c].pc = "await" /\ caller[c].awaits = pipelinePromise

\* C9: a failed load is never handed to a later call: its waiters get the
\* error, pipelinePromise never holds a rejected load, and a call that has to
\* wait always waits for a load in flight.
C9_FailedLoadIsNotKept ==
    /\ [](pipelinePromise # 0 => loads[pipelinePromise] # "rejected")
    /\ [][\A c \in Callers :
            /\ (caller[c].pc = "idle" /\ caller'[c].pc = "await") =>
                  loads'[caller'[c].awaits] = "pending"
            /\ (caller[c].pc = "await" /\ loads[caller[c].awaits] = "rejected"
                    /\ caller'[c] # caller[c]) => caller'[c].pc = "error"]_vars

C9_Witness ==
    /\ \E l \in Loads : loads[l] = "rejected"
    /\ \E c \in Callers : caller[c].pc = "error"
    /\ \E c \in Callers : caller[c].pc = "await" /\ loads[caller[c].awaits] = "pending"

(***************************************************************************)
(* Properties of the registry.                                             *)
(***************************************************************************)
KeyOf(r) == <<r.server, r.name>>
RegisteredKeys == {KeyOf(tools[i]) : i \in 1..Len(tools)}
Records == {tools[i] : i \in 1..Len(tools)}

\* C1: getTool(server, name) returns a registered record of that key for every
\* key in the tool sequence, and absence for every key that was never
\* registered.
C1_GetToolFindsExactlyRegistered ==
    /\ \A r \in Records :
          /\ getTool(r.server, r.name) \in Records
          /\ KeyOf(getTool(r.server, r.name)) = KeyOf(r)
    /\ \A k \in (Keys \cup {<<"skills", n>> : n \in Names}) \ RegisteredKeys :
          getTool(k[1], k[2]) = Absent

C1_Witness ==
    /\ getTool("s1", "a") # Absent
    /\ getTool("internal", "b").isSkill
    /\ getTool("s1", "b") = Absent
    /\ getTool("internal", "a") = Absent

\* C2: the tool sequence holds at most one record for each (server, name).
C2_KeysUnique ==
    \A i, j \in 1..Len(tools) : KeyOf(tools[i]) = KeyOf(tools[j]) => i = j

\* A call returns normally in this step.
Completes(t) == task[t].pc # "done" /\ task'[t].pc = "done" /\ ~task'[t].thrown

\* C3: updatedAt is strictly greater after every successful connectServer,
\* registerToolsFromClient and registerSkill than before it.
C3_UpdatedAtStrictlyIncreases ==
    [][(\E t \in Tasks : Completes(t)) => updatedAt' > updatedAt]_vars

\* C4: whenever fuzzySearch would reuse the cached index (its builtAt equals
\* updatedAt), the index was built from exactly the records now registered.
C4_ReusedIndexIsFresh ==
    CacheHit => fuseCache.instance = tools

\* A call fails at client.connect or at the enumeration in this step.
FailsBeforePush(t) == task[t].pc \in {"connect", "list"} /\ task'[t].pc = "done"

\* C6: when connectServer fails at spawn, connect or enumeration, the error
\* is rethrown and the registry is unchanged: no record of the failing call,
\* every earlier record retained, updatedAt as it was.
C6_FailedConnectLeavesRegistry ==
    [][\A t \in Tasks : FailsBeforePush(t) =>
            /\ task'[t].thrown
            /\ tools' = tools
            /\ toolMap' = toolMap
            /\ updatedAt' = updatedAt
            /\ \A r \in Records : r.client # task[t].client]_vars

C6_Witness ==
    \E t \in Tasks :
        /\ task[t].pc = "done"
        /\ task[t].failedAt \in {"connect", "list"}
        /\ tools # <<>>
        /\ updatedAt > 0

\* The embeddings of a call settle in this step.
LeavesEmbed(t) == task[t].pc = "embed" /\ task'[t].pc # "embed"

\* C7: in vector mode a failed generateEmbedding never fails the registration:
\* every enumerated tool (or the skill) is registered, and exactly those whose
\* generation failed carry no embedding.
C7_GenerationFailureIsNotFatal ==
    [][\A t \in Tasks : (vectorMode /\ LeavesEmbed(t)) =>
            /\ ~task'[t].thrown
            /\ Len(tools') = Len(tools) + Len(task[t].list)
            /\ \A i \in 1..Len(task[t].list) :
                  LET r == tools'[Len(tools) + i]
                  IN /\ r.name = task[t].list[i].name
                     /\ r.server = task[t].server
                     /\ (r.embedding = NoEmb) <=> (task'[t].gen[i] = "fail")]_vars

C7_Witness ==
    \E t \in Tasks :
        /\ vectorMode
        /\ task[t].pc \in {"save", "done"}
        /\ \E i, j \in 1..Len(task[t].gen) :
              task[t].gen[i] = "fail" /\ task[t].gen[j] = "ok"
        /\ \E r \in Records : r.client = task[t].client /\ r.embedding = NoEmb

\* C10: after a restart a record's embedding is the one of its current
\* definition, and the cache file of a finished registration holds no entry
\* for a tool the server no longer lists.
C10_CacheTracksDefinitions ==
    restarts > 0 =>
        /\ \A r \in Records :
              r.embedding # NoEmb => r.embedding = EmbeddingOf(r.name, r.description)
        /\ \A t \in Tasks :
              (task[t].pc = "done" /\ ~task[t].thrown /\ task[t].hash # NoHash
                    /\ cacheFiles[task[t].hash].state = "ok") =>
                 \A n \in Names :
                    cacheFiles[task[t].hash].map[n] # NoEmb =>
                        \E i \in 1..Len(task[t].list) : task[t].list[i].name = n

(***************************************************************************)
(* Properties of the startup.                                              *)
(***************************************************************************)
\* What the records of one connection say: server, name, definition.
Listing(q) == [i \in 1..Len(q) |-> <<q[i].server, q[i].name, q[i].description>>]
RecordsOfClient(c) == SelectSeq(tools, LAMBDA r : r.client = c)
Enumerated(t) ==
    [i \in 1..Len(task[t].list) |->
        <<config.servers[t].name, task[t].list[i].name, task[t].list[i].def>>]
ConnectedAndEnumerated(t) ==
    Configured(t) /\ task[t].pc = "done" /\ task[t].failedAt \notin {"connect", "list"}

\* C5: whichever servers fail to spawn, connect or enumerate, startup goes
\* on, and once the connections have settled the registry holds exactly the
\* tools of every server that connected and enumerated, in their order.
C5_StartupIsolatesFailures ==
    /\ []((phase \notin {"start", "connecting"} /\ config.state = "ok") =>
            /\ \A t \in 1..MaxServers :
                  Listing(RecordsOfClient(t)) =
                     IF ConnectedAndEnumerated(t) THEN Enumerated(t) ELSE <<>>
            /\ \A r \in Records : ~r.isSkill => r.client \in 1..Len(config.servers))
    /\ []((phase = "connecting" /\ AllSettled) => ENABLED ConnectionsSettled)
    /\ [][(phase # "exit" /\ phase' = "exit") => phase \in {"start", "registering"}]_vars

C5_Witness ==
    /\ phase = "bound"
    /\ \E t, u \in 1..MaxServers :
          /\ task[t].thrown /\ task[t].failedAt \in {"connect", "list"}
          /\ ConnectedAndEnumerated(u) /\ Len(RecordsOfClient(u)) = MaxTools

\* C12: an absent skills file registers no skill and startup goes on; a
\* skills file that is present but malformed aborts startup, so the server
\* never binds its transport.
C12_MalformedSkillsFileIsFatal ==
    /\ skillsFile.state = "absent" => \A r \in Records : ~r.isSkill
    /\ skillsFile.state = "malformed" => phase # "bound"

(***************************************************************************)
(* Properties of call_tool, executeTool and executeSkill.                  *)
(***************************************************************************)
Requests == {upstream[i] : i \in 1..Len(upstream)}
IsFailure(response) == response.kind \in {"isError", "thrown"}

\* C13: a call_tool request whose (server, toolName) getTool does not resolve
\* is answered with isError and a message, and nothing is dispatched: no
\* upstream callTool, no skill step.
C13_UnresolvedCallIsAnErrorResponse ==
    (call.entry = "call_tool" /\ getTool(call.server, call.toolName) = Absent) =>
        /\ call.pc = "done"
        /\ call.response.kind = "isError"
        /\ call.response.error = "not_found"
        /\ upstream = <<>>
        /\ call.frames = <<>> /\ call.failedPath = <<>>

C13_Witness ==
    /\ call.entry = "call_tool" /\ call.pc = "done"
    /\ call.server = "s2" /\ call.toolName = "a"
    /\ getTool("s2", "a") = Absent
    /\ getTool("s1", "a") # Absent

\* C14: call_tool never rejects: a failed dispatch (upstream call or skill
\* step) is answered with isError and the error's message, a dispatch that
\* succeeded with the result executeTool resolved with.
C14_HandlerNeverThrows ==
    (call.entry = "call_tool" /\ call.pc = "done") =>
        /\ call.response.kind \in {"result", "isError"}
        /\ call.response.kind = "isError" => call.response.error # "none"
        /\ (\E r \in Requests : r.state = "rejected") =>
              (call.response.kind = "isError" /\ call.response.error = "rejected")
        /\ call.response.kind = "result" =>
              /\ \A r \in Requests : r.state = "resolved"
              /\ ~call.tool.isSkill =>
                    (Len(upstream) = 1 /\ call.response.value = upstream[1].result)
              /\ call.tool.isSkill =>
                    call.response.value \in {Null} \cup {r.result : r \in Requests}

C14_Witness ==
    /\ call.entry = "call_tool" /\ call.pc = "done"
    /\ call.tool.isSkill
    /\ call.response.kind = "isError" /\ call.response.error = "rejected"
    /\ Len(upstream) = 2

\* C15: when several servers expose a tool of one name, the callTool that
\* call_tool(server, toolName) issues goes to the client of a record
\* registered under that server and that name.
C15_DispatchGoesToTheNamedServer ==
    call.entry = "call_tool" =>
        \A r \in Requests :
            r.path = <<>> =>
                /\ r.name = call.toolName
                /\ \E t \in Records :
                      /\ t.server = call.server /\ t.name = call.toolName
                      /\ ~t.isSkill /\ t.client = r.client

C15_Witness ==
    /\ call.entry = "call_tool" /\ call.server = "s2" /\ call.toolName = "a"
    /\ \E t \in Records : t.server = "s1" /\ t.name = "a" /\ t.client = 1
    /\ Len(upstream) = 1 /\ upstream[1].client = 2 /\ upstream[1].state = "resolved"

\* C16: executeTool hands a skill record to executeSkill with the same args,
\* and fails without a registry; fails for a record that is no skill and has
\* no client; else issues exactly one callTool({name, arguments: args}) on
\* the record's client and ends as that call ends.
C16_ExecuteToolRoutesByKind ==
    (call.entry = "executeTool" /\ call.pc # "idle") =>
        /\ (call.tool.isSkill /\ ~call.hasRegistry) =>
              (call.pc = "done" /\ call.response = Failure("executeTool", "no_registry")
                 /\ upstream = <<>>)
        /\ (call.tool.isSkill /\ call.hasRegistry /\ call.frames # <<>>) =>
              (call.frames[1].name = call.tool.name /\ call.frames[1].args = call.args
                 /\ call.frames[1].steps = call.tool.steps.list)
        /\ (~call.tool.isSkill /\ call.tool.client = NoClient) =>
              (call.pc = "done" /\ call.response = Failure("executeTool", "no_client")
                 /\ upstream = <<>>)
        /\ (~call.tool.isSkill /\ call.tool.client # NoClient) =>
              /\ Len(upstream) = 1
              /\ upstream[1].client = call.tool.client
              /\ upstream[1].name = call.tool.name
              /\ upstream[1].args = call.args
              /\ upstream[1].state = "pending" <=> call.pc = "awaiting"
              /\ upstream[1].state = "resolved" => call.response = Respond(upstream[1].result)
              /\ upstream[1].state = "rejected" =>
                    call.response = Failure("executeTool", "rejected")

C16_Witness ==
    /\ call.entry = "executeTool" /\ call.pc = "done"
    /\ ~call.tool.isSkill /\ call.tool.client = 2
    /\ call.response = Respond(ImageResult)

\* C17: executeSkill leaves the caller's args as they were, at every point of
\* the call and however it ends, also when a step stores its result under
\* the name of an argument.
C17_ArgsAreNeverMutated ==
    call.pc # "idle" =>
        /\ call.argsAfter = call.args
        /\ call.frames # <<>> => call.frames[1].args = call.args

C17_Witness ==
    /\ call.pc = "awaiting"
    /\ GetField(call.args, "a") = Str(<<"x">>)
    /\ call.frames # <<>>
    /\ call.frames[1].idx = 2
    /\ call.frames[1].steps[1].result_var = "a"
    /\ call.frames[1].context["a"] = Str(<<"T">>)

\* p comes before q, or is q, in the order the steps run.
RECURSIVE NotAfter(_, _)
NotAfter(p, q) ==
    IF p = <<>> \/ q = <<>> THEN TRUE
    ELSE IF Head(p) # Head(q) THEN Head(p) < Head(q)
    ELSE NotAfter(Tail(p), Tail(q))

\* C20: when a step fails the skill ends at once with that error: no later
\* step is dispatched, and what the earlier steps did upstream stays done.
C20_StepFailureAbortsTheSkill ==
    /\ []((call.pc = "done" /\ call.failedPath # <<>>) =>
            /\ IsFailure(call.response)
            /\ \A r \in Requests : NotAfter(r.path, call.failedPath)
            /\ call.response.error = "rejected" =>
                  /\ upstream[Len(upstream)].state = "rejected"
                  /\ upstream[Len(upstream)].path = call.failedPath)
    /\ [][/\ Len(upstream') >= Len(upstream)
          /\ \A i \in 1..Len(upstream) :
                /\ upstream[i].state # "pending" => upstream'[i] = upstream[i]
                /\ upstream'[i].path = upstream[i].path
                /\ upstream'[i].client = upstream[i].client
          /\ call.pc = "done" => upstream' = upstream]_vars

C20_Witness ==
    /\ call.pc = "done"
    /\ call.tool.isSkill /\ Len(call.tool.steps.list) = 2
    /\ call.failedPath = <<1>>
    /\ Len(upstream) = 1 /\ upstream[1].state = "rejected"

\* What the final step of a skill dispatched resolved with: the result of the
\* last upstream callTool, or what the skill that the final step names
\* returned; null for a skill without steps.
RECURSIVE FinalDispatch(_, _)
FinalDispatch(tool, depth) ==
    IF ~tool.isSkill THEN upstream[Len(upstream)].result
    ELSE IF tool.steps.list = <<>> \/ depth = 0 THEN Null
    ELSE FinalDispatch(StepTool(tool.steps.list[Len(tool.steps.list)]), depth - 1)

\* C21: a skill of at least one step whose steps all succeed returns what the
\* dispatch of its final step resolved with, as it is, not the text stored
\* under result_var.
C21_SkillReturnsRawLastResult ==
    (/\ call.pc = "done" /\ call.response.kind = "result"
     /\ call.tool.isSkill /\ call.tool.steps.defined
     /\ Len(call.tool.steps.list) >= 1) =>
        call.response.value = FinalDispatch(call.tool, MaxFrames)

C21_Witness ==
    /\ call.pc = "done" /\ call.response.kind = "result"
    /\ call.tool.isSkill /\ Len(call.tool.steps.list) = 2
    /\ call.tool.steps.list[2].result_var = "a"
    /\ ~StepTool(call.tool.steps.list[2]).isSkill
    /\ Len(upstream) = 2
    /\ call.response.value = TextResult
    /\ ExtractText(TextResult) # TextResult

(***************************************************************************)
(* Properties of searchTools.                                              *)
(***************************************************************************)
ScoreOf(r) == cosineSimilarity(search.query.dots, r.embedding)

\* C22: a vector-mode search returns only records that have an embedding and
\* score strictly above 0.35 against the query, best score first.
C22_VectorResultsAboveThresholdAndSorted ==
    (vectorMode /\ search.pc = "returned") =>
        /\ \A i \in 1..Len(search.results) :
              /\ search.results[i].embedding # NoEmb
              /\ ScoreOf(search.results[i]) > VECTOR_THRESHOLD
        /\ \A i \in 1..(Len(search.results) - 1) :
              ScoreOf(search.results[i]) >= ScoreOf(search.results[i + 1])

C22_Witness ==
    /\ vectorMode /\ search.pc = "returned"
    /\ Len(tools) = 3 /\ search.limit = 3
    /\ tools[1].embedding = NoEmb
    /\ tools[2].embedding # NoEmb /\ ScoreOf(tools[2]) = VECTOR_THRESHOLD
    /\ tools[3].embedding # NoEmb /\ ScoreOf(tools[3]) > VECTOR_THRESHOLD
    /\ search.results = <<tools[3]>>

\* No record matches the query of the search in hand.
NothingScores ==
    IF vectorMode
    THEN \A i \in 1..Len(tools) :
            tools[i].embedding = NoEmb \/ ScoreOf(tools[i]) <= VECTOR_THRESHOLD
    ELSE \A i \in 1..Len(tools) :
            /\ search.query.phrase[i] > FUSE_THRESHOLD
            /\ \A w \in 1..Len(search.query.words) :
                  search.query.words[w][i] > FUSE_THRESHOLD

\* C23: searchTools returns the empty list for an empty registry, when no
\* record matches, and for every limit <= 0; for limit > 0 it returns at most
\* limit records.
C23_EmptyAndBoundedResults ==
    search.pc = "returned" =>
        /\ tools = <<>> => search.results = <<>>
        /\ NothingScores => search.results = <<>>
        /\ search.limit <= 0 => search.results = <<>>
        /\ search.limit > 0 => Len(search.results) <= search.limit

(***************************************************************************)
(* Properties of the order of the startup.                                 *)
(***************************************************************************)
NoCallInProgress == \A t \in Tasks : task[t].pc \in {"idle", "done"}
SkillsRegistered ==
    skillsFile.state = "ok" =>
        \A i \in 1..Len(skillsFile.skills) :
            \E r \in Records : r.isSkill /\ r.server = "internal"
                                  /\ r.name = skillsFile.skills[i].name

Appended == SubSeq(tools', Len(tools) + 1, Len(tools'))
WholeListOf(t) ==
    /\ task[t].pc = "embed" /\ task[t].kind \in {"connect", "register"}
    /\ Len(Appended) = Len(task[t].list)
    /\ \A i \in 1..Len(Appended) :
          /\ Appended[i].server = task[t].server
          /\ Appended[i].name = task[t].list[i].name
          /\ Appended[i].client = task[t].client

\* C25: the records of one registerToolsFromClient call enter the tool
\* sequence in one step, all of them and nothing else, and that step also
\* moves updatedAt off its value of before, so that no search and no
\* call_tool meets the new records under the old stamp.
C25_RegistrationIsAtomic ==
    [][(tools' # tools /\ restarts' = restarts) =>
          /\ Len(tools') > Len(tools)
          /\ SubSeq(tools', 1, Len(tools)) = tools
          /\ \/ Len(Appended) = 1 /\ Appended[1].isSkill
             \/ \E t \in Tasks : WholeListOf(t)
          /\ updatedAt' # updatedAt]_vars

(***************************************************************************)
(* Properties of the cache files over a startup.                           *)
(***************************************************************************)
ConfiguredSlots == {t \in 1..Len(config.servers) : Configured(t)}

\* C26: for every configured server with a command, args or env given or
\* not, the hash loadConfig puts into activeHashes is the hash connectServer
\* reads and writes the cache under, and the cleanup of this startup leaves
\* the file written under it in place.
C26_CleanupKeepsConfiguredCaches ==
    /\ [](phase \in {"connecting", "gc", "skills", "registering", "bound"} =>
            \A t \in ConfiguredSlots : task[t].hash \in activeHashes)
    /\ [][(phase = "gc" /\ phase' # phase) =>
            \A t \in ConfiguredSlots :
                cacheFiles[task[t].hash].state = "ok" =>
                    cacheFiles'[task[t].hash] = cacheFiles[task[t].hash]]_vars

(***************************************************************************)
(* Properties of the order of the records after a startup.                 *)
(***************************************************************************)
\* The configured servers, by position in the config, that registered a tool
\* of this name.
Exposing(name) ==
    {t \in ConfiguredSlots : \E r \in Records : ~r.isSkill /\ r.client = t /\ r.name = name}

\* C27: a step that names no server, for a tool name that several upstream
\* servers registered, resolves to the record of the server that comes first
\* in the config, in whatever order the connections completed.
C27_UnnamedStepTakesFirstConfiguredServer ==
    phase = "bound" =>
        \A n \in Names :
            Cardinality(Exposing(n)) > 1 =>
                StepTool([server |-> "none", tool |-> n]).client
                    = CHOOSE t \in Exposing(n) : \A u \in Exposing(n) : t <= u

(***************************************************************************)
(* Properties of the embeddings a registration resolves.                   *)
(***************************************************************************)
Embeds(t) ==
    /\ task[t].pc = "embed" /\ task[t].kind \in {"connect", "register"}
    /\ task'[t].pc # "embed"
InCache(t, i) ==
    task[t].cached.hit /\ task[t].cached.map[task[t].list[i].name] # NoEmb

\* C28: in vector mode with a serverHash a tool whose name is in the cached
\* map gets the cached vector and generateEmbedding is called for the other
\* tools only; outside vector mode nothing is generated, no cache is read and
\* every record is pushed without an embedding.
C28_EmbeddingsComeFromCacheOrGeneration ==
    /\ [](~vectorMode => \A t \in Tasks : task[t].pc # "cache" /\ ~task[t].cached.hit)
    /\ [][\A t \in Tasks :
            Embeds(t) =>
                /\ Len(Appended) = Len(task[t].list)
                /\ \A i \in 1..Len(task[t].list) :
                      /\ (vectorMode /\ task[t].hash # NoHash /\ InCache(t, i)) =>
                            /\ task'[t].gen[i] = "cached"
                            /\ Appended[i].embedding
                                  = task[t].cached.map[task[t].list[i].name]
                      /\ (vectorMode /\ task[t].hash # NoHash /\ ~InCache(t, i)) =>
                            /\ task'[t].gen[i] \in {"ok", "fail"}
                            /\ task'[t].gen[i] = "fail" => Appended[i].embedding = NoEmb
                            /\ task'[t].gen[i] = "ok" =>
                                  Appended[i].embedding
                                     = EmbeddingOf(task[t].list[i].name, task[t].list[i].def)
                      /\ ~vectorMode =>
                            (task'[t].gen[i] = "none" /\ Appended[i].embedding = NoEmb)]_vars

C28_Witness ==
    /\ vectorMode
    /\ \E t \in Tasks :
          /\ task[t].pc \in {"save", "done"} /\ task[t].hash # NoHash
          /\ task[t].gen = <<"cached", "ok">>
          /\ Len(tools) >= 2
          /\ tools[Len(tools) - 1].embedding # EmbeddingOf(task[t].list[1].name, task[t].list[1].def)
          /\ tools[Len(tools) - 1].embedding # NoEmb

(***************************************************************************)
(* Properties of the cache write of a registration.                        *)
(***************************************************************************)
\* The cached map overlaid with the embeddings of the records call t pushed,
\* the later record of a name over the earlier.
Merged(t) ==
    [n \in Names |->
        LET own == SelectSeq(tools, LAMBDA r : r.client = task[t].client /\ ~r.isSkill
                                                /\ r.name = n /\ r.embedding # NoEmb)
        IN IF own # <<>> THEN own[Len(own)].embedding ELSE task[t].cached.map[n]]

\* C29: registerToolsFromClient writes the cache exactly when it was given a
\* serverHash and generated at least one embedding; what it writes is the
\* cached map merged with every embedding it resolved; and it returns only
\* after the write has settled.
C29_CacheWrittenIffNewEmbeddings ==
    [][/\ \A t \in Tasks :
            /\ Embeds(t) =>
                  (task'[t].pc = "save" <=>
                      (task[t].hash # NoHash
                         /\ \E i \in 1..Len(task[t].list) : task'[t].gen[i] = "ok"))
            /\ (task[t].pc = "save" /\ task'[t].pc # "save") =>
                  /\ \A h \in Hashes \ {task[t].hash} : cacheFiles'[h] = cacheFiles[h]
                  /\ cacheFiles'[task[t].hash] # cacheFiles[task[t].hash] =>
                        cacheFiles'[task[t].hash] \in
                            {[state |-> "ok", map |-> Merged(t)],
                             [state |-> "corrupt", map |-> EmptyMap]}
       /\ (cacheFiles' # cacheFiles /\ phase = "api") =>
             \E t \in Tasks : task[t].pc = "save" /\ task'[t].pc = "done"]_vars

C29_Witness ==
    /\ vectorMode
    /\ \E t \in Tasks :
          /\ task[t].pc = "done" /\ ~task[t].thrown /\ task[t].hash # NoHash
          /\ task[t].gen = <<"cached", "ok">>
          /\ task[t].list[1].name # task[t].list[2].name
          /\ cacheFiles[task[t].hash].state = "ok"
          /\ \A n \in Names : cacheFiles[task[t].hash].map[n] # NoEmb

\* C30: a cache file is replaced as a whole: when saveEmbeddingsToCache has
\* settled, failed or not, a reader finds the complete map of before or the
\* complete new map, never a truncated or partly written file.
C30_CacheFileReplacedAtomically ==
    [][\A t \in Tasks :
          (task[t].pc = "save" /\ task'[t].pc # "save") =>
              cacheFiles'[task[t].hash] \in
                  {cacheFiles[task[t].hash], [state |-> "ok", map |-> Merged(t)]}]_vars

\* The commas of a text that stand outside every array.
RECURSIVE TopLevelCommas(_, _)
TopLevelCommas(text, inArray) ==
    IF text = <<>> THEN 0
    ELSE IF Head(text) = Punct("[") THEN TopLevelCommas(Tail(text), TRUE)
    ELSE IF Head(text) = Punct("]") THEN TopLevelCommas(Tail(text), FALSE)
    ELSE (IF Head(text) = Punct(",") /\ ~inArray THEN 1 ELSE 0)
         + TopLevelCommas(Tail(text), inArray)

\* C31: once saveEmbeddingsToCache has written the file, wherever its
\* flushes fell, the text parses as one JSON object whose entries are the
\* map's keys with the elements of their vectors in order, one comma stands
\* between two consecutive entries and none elsewhere, and
\* getCachedEmbeddings returns that map.
C31_SaveThenReadIsRoundTrip ==
    /\ saving.pc \in {"saved", "read"} =>
          /\ typedEmbeddings(saving.file) = [hit |-> TRUE, entries |-> saving.embeddings]
          /\ TopLevelCommas(saving.file, FALSE)
                = IF Len(saving.embeddings) = 0 THEN 0 ELSE Len(saving.embeddings) - 1
    /\ saving.pc = "read" =>
          saving.loaded = [hit |-> TRUE, entries |-> saving.embeddings]

\* A map of three entries was read back after a flush on its last entry that
\* followed entries flushed with it.
C31_Witness ==
    /\ saving.pc = "read"
    /\ Len(saving.embeddings) = MaxEntries
    /\ MaxEntries \in saving.flushed
    /\ 2 \notin saving.flushed
    /\ saving.loaded.hit

\* Whether path q comes after path p in the order the steps are run in.
RECURSIVE Later(_, _)
Later(p, q) ==
    IF p = <<>> THEN q # <<>>
    ELSE IF q = <<>> THEN FALSE
    ELSE Head(q) > Head(p) \/ (Head(q) = Head(p) /\ Later(Tail(p), Tail(q)))

\* What a result binds under result_var.
TextElements(result) ==
    {j \in 1..Len(GetField(result, "content").items) :
        GetField(GetField(result, "content").items[j], "type") = Str(<<"text">>)}
Bound(result) ==
    IF result.t = "object" /\ GetField(result, "content").t = "array"
       /\ TextElements(result) # {}
    THEN GetField(GetField(result, "content").items[
                     CHOOSE j \in TextElements(result) :
                        \A k \in TextElements(result) : j <= k], "text")
    ELSE result

\* C32: the steps of a skill are dispatched one after the other, each after
\* the dispatch before it has completed; a step with result_var binds the
\* text of the first text element of the result's content array, or the
\* whole result when there is none, and the step after it is substituted with
\* that binding.
C32_StepsRunInSequenceWithDataFlow ==
    /\ [](\A i \in 1..Len(upstream) - 1 :
            /\ upstream[i].state # "pending"
            /\ Later(upstream[i].path, upstream[i + 1].path)
            /\ (/\ call.tool.isSkill
                /\ Len(upstream[i].path) = 1 /\ Len(upstream[i + 1].path) = 1
                /\ upstream[i + 1].path[1] = upstream[i].path[1] + 1
                /\ call.tool.steps.list[upstream[i].path[1]].result_var = "a")
               => upstream[i + 1].args = Obj(<<Field("a", Bound(upstream[i].result))>>))
    /\ [][(/\ call.pc = "awaiting"
           /\ call.frames # <<>>
           /\ Len(call'.frames) >= Len(call.frames)
           /\ call'.frames[Len(call.frames)].idx = call.frames[Len(call.frames)].idx + 1)
          => LET n == Len(call.frames)
                 step == call.frames[n].steps[call.frames[n].idx]
                 result == upstream'[Len(upstream)].result
             IN /\ upstream'[Len(upstream)].state = "resolved"
                /\ \A v \in Names :
                      call'.frames[n].context[v] =
                         IF step.result_var = v THEN Bound(result)
                         ELSE call.frames[n].context[v]]_vars

\* The second step of a skill was dispatched with the text the first step's
\* result bound, found behind an element that is no text.
C32_Witness ==
    /\ call.tool.isSkill
    /\ Len(upstream) = 2
    /\ upstream[1].path = <<1>> /\ upstream[2].path = <<2>>
    /\ upstream[1].result = MixedResult
    /\ upstream[2].args = Obj(<<Field("a", Str(<<"U">>))>>)

\* The record a step is to resolve to.
Named(name) == {i \in 1..Len(tools) : tools[i].name = name}
Expected(step) ==
    IF step.server # "none" THEN getTool(step.server, step.tool)
    ELSE IF Named(step.tool) = {} THEN Absent
    ELSE tools[CHOOSE i \in Named(step.tool) : \A j \in Named(step.tool) : i <= j]

\* The step at a path of the skill that was called.
StepAt(path) ==
    LET outer == call.tool.steps.list[path[1]]
    IN IF Len(path) = 1 THEN outer ELSE Expected(outer).steps.list[path[2]]

\* C33: a step that names a server runs the record getTool finds for
\* (server, tool) and fails with the not-found error that names the server
\* when there is none; a step that names no server runs the first record of
\* the tool sequence with that name and fails with not-found when no record
\* has it.
C33_StepToolResolution ==
    /\ (call.pc = "awaiting" /\ call.frames # <<>>) =>
          LET top == call.frames[Len(call.frames)]
              tool == Expected(top.steps[top.idx])
              request == upstream[Len(upstream)]
          IN /\ tool # Absent /\ ~tool.isSkill
             /\ request.client = tool.client /\ request.name = tool.name
    /\ \A k \in 2..Len(call.frames) :
          LET tool == Expected(call.frames[k - 1].steps[call.frames[k - 1].idx])
          IN /\ tool # Absent /\ tool.isSkill
             /\ call.frames[k].name = tool.name
             /\ call.frames[k].steps = tool.steps.list
    /\ (call.pc = "done" /\ call.failedPath # <<>>) =>
          LET step == StepAt(call.failedPath)
          IN /\ call.response.error = "not_found_on_server"
                  <=> (step.server # "none" /\ getTool(step.server, step.tool) = Absent)
             /\ call.response.error = "not_found"
                  <=> (step.server = "none" /\ Named(step.tool) = {})

\* A step that names no server was dispatched to the first of the records of
\* its name, which a second server exposes too.
C33_Witness ==
    /\ call.pc = "awaiting" /\ call.frames # <<>>
    /\ LET top == call.frames[Len(call.frames)]
       IN /\ top.steps[top.idx].server = "none"
          /\ top.steps[top.idx].tool = "a"
          /\ getTool("s2", "a") # Absent
          /\ upstream[Len(upstream)].client = 1

\* Whether the skills a record reaches through its steps refer back to one
\* of `seen` or to one another in a cycle.
RECURSIVE Cyclic(_, _)
Cyclic(tool, seen) ==
    /\ tool.isSkill
    /\ \/ tool \in seen
       \/ \E k \in 1..Len(tool.steps.list) :
             Cyclic(Expected(tool.steps.list[k]), seen \cup {tool})

\* The upstream dispatches of a skill that reaches no cycle, when every one of
\* its steps succeeds.
RECURSIVE Dispatches(_)
RECURSIVE SumOver(_, _)
SumOver(tool, k) ==
    IF k = 0 THEN 0
    ELSE Dispatches(Expected(tool.steps.list[k])) + SumOver(tool, k - 1)
Dispatches(tool) ==
    IF tool = Absent THEN 0
    ELSE IF ~tool.isSkill THEN 1
    ELSE SumOver(tool, Len(tool.steps.list))

\* C34: a skill that reaches no cycle of skills ends, with a result or an
\* error, after no more dispatches than its steps and theirs name, provided
\* every upstream callTool completes; nothing refuses a skill that is already
\* in progress, so a skill whose first step names itself is entered again and
\* again, and only a cycle makes the nesting grow past the skills there are.
C34_SkillsWithoutCyclesTerminate ==
    /\ [](~Cyclic(call.tool, {}) =>
            /\ call.pc # "deep"
            /\ call.tool.isSkill => Len(upstream) <= Dispatches(call.tool))
    /\ []((/\ call.tool.isSkill /\ call.hasRegistry /\ call.tool.steps.list # <<>>
           /\ Expected(call.tool.steps.list[1]) = call.tool) =>
            /\ call.pc = "deep"
            /\ Len(call.frames) = MaxFrames
            /\ \A k \in 1..Len(call.frames) : call.frames[k].name = call.tool.name)
    /\ (call.pc = "awaiting" /\ ~Cyclic(call.tool, {})) ~> call.pc = "done"

\* A skill whose step runs a second skill ended with the result of that
\* skill's dispatch.
C34_Witness ==
    /\ call.pc = "done" /\ call.tool.isSkill
    /\ ~Cyclic(call.tool, {})
    /\ Len(upstream) = 1 /\ Len(upstream[1].path) = 2
    /\ call.response.kind = "result"

\* The reference: score every record that has an embedding, keep the scores
\* above the threshold, sort by score, best first and equal scores in the
\* order of the registry, and take the first `limit`.
Matching ==
    {i \in 1..Len(tools) :
        tools[i].embedding # NoEmb /\ ScoreOf(tools[i]) > VECTOR_THRESHOLD}
Before(i) ==
    {j \in Matching :
        \/ ScoreOf(tools[j]) > ScoreOf(tools[i])
        \/ ScoreOf(tools[j]) = ScoreOf(tools[i]) /\ j < i}
Reference(limit) ==
    LET kept == IF Cardinality(Matching) < limit THEN Cardinality(Matching) ELSE limit
    IN [k \in 1..kept |-> tools[CHOOSE i \in Matching : Cardinality(Before(i)) = k - 1]]

\* C35: for every registry, every scoring of it by the query and every limit
\* that is not negative, the vector search returns what the reference
\* returns: the same records in the same order.
C35_TopLimitEqualsSortAndSlice ==
    (vectorMode /\ search.pc = "returned" /\ search.limit >= 0) =>
        search.results = Reference(search.limit)

\* Three records above the threshold, the first and the third with the same
\* score and the second below them, searched with limit 2: the third took
\* the place of the second and stayed behind the first.
C35_Witness ==
    /\ vectorMode /\ search.pc = "returned"
    /\ Len(tools) = 3 /\ search.limit = 2
    /\ \A i \in 1..3 : tools[i].embedding # NoEmb
    /\ ScoreOf(tools[1]) = ScoreOf(tools[3])
    /\ ScoreOf(tools[2]) > VECTOR_THRESHOLD
    /\ ScoreOf(tools[2]) < ScoreOf(tools[1])
    /\ search.results = <<tools[1], tools[3]>>

\* The records the whole query matches, and those one of its tokens matches.
WholeMatches == {i \in 1..Len(tools) : search.query.phrase[i] <= FUSE_THRESHOLD}
WordMatches ==
    {i \in 1..Len(tools) :
        \E w \in 1..Len(search.query.words) : search.query.words[w][i] <= FUSE_THRESHOLD}

\* C36: a fuzzy search returns matches of the whole query and, only when these
\* are fewer than limit, matches of its tokens; over a registry of unique keys
\* no two returned records have the same (server, name), and for a limit that
\* is not negative no more than limit records are returned.
C36_FallbackDedupAndLimit ==
    (~vectorMode /\ search.pc = "returned") =>
        /\ \A k \in 1..Len(search.results) :
              \E i \in WholeMatches \cup WordMatches :
                 /\ search.results[k] = tools[i]
                 /\ i \notin WholeMatches => Cardinality(WholeMatches) < search.limit
        /\ \A k, m \in 1..Len(search.results) :
              SeenKey(search.results[k]) = SeenKey(search.results[m]) => k = m
        /\ search.limit >= 0 => Len(search.results) <= search.limit

\* One record matched the whole query and a token, a second record two
\* tokens: both were returned once.
C36_Witness ==
    /\ ~vectorMode /\ search.pc = "returned"
    /\ Len(tools) = 2 /\ search.limit = MaxLimit
    /\ WholeMatches = {1}
    /\ Len(search.query.words) = 2
    /\ search.query.words[1][1] <= FUSE_THRESHOLD
    /\ search.query.words[1][2] <= FUSE_THRESHOLD
    /\ search.query.words[2][2] <= FUSE_THRESHOLD
    /\ Len(search.results) = 2

(***************************************************************************)
(* Properties of the records of the registry.                              *)
(***************************************************************************)
\* The call that enumerated an upstream record: it was given the record's
\* server name and client and listed the record's name.
EnumeratedBy(r, t) ==
    /\ task[t].kind \in {"connect", "register"}
    /\ task[t].server = r.server /\ task[t].client = r.client
    /\ \E j \in 1..Len(task[t].list) : task[t].list[j].name = r.name

\* What executeTool(r, {}, registry) does up to its first await.
ExecutedAlone(r) ==
    Execute(Started("executeTool", r.server, r.name, Obj(<<>>), r, TRUE), <<>>, r,
            Obj(<<>>), TRUE).call

\* C37: every record of the registry is a skill record (isSkill, steps, no
\* client) or an upstream record (no skill, no steps, the client of the call
\* that enumerated it), never both or neither, so executeTool on a record of
\* the registry never throws for a missing client.
C37_RecordsAreSkillsOrUpstream ==
    \A i \in 1..Len(tools) :
        LET r == tools[i]
        IN /\ \/ r.isSkill /\ r.steps.defined /\ r.client = NoClient
              \/ /\ ~r.isSkill /\ ~r.steps.defined /\ r.client # NoClient
                 /\ \E t \in Tasks : EnumeratedBy(r, t)
           /\ ExecutedAlone(r).response.error # "no_client"

\* The registry holds a record of each kind.
C37_Witness ==
    /\ \E i \in 1..Len(tools) : tools[i].isSkill
    /\ \E i \in 1..Len(tools) : ~tools[i].isSkill /\ ExecutedAlone(tools[i]).pc = "awaiting"

\* C38: in every state of the registry a record has the server `internal`
\* exactly when it is a skill record, whatever names the configuration gives
\* its servers.
C38_InternalIsReservedForSkills ==
    \A i \in 1..Len(tools) : tools[i].server = "internal" <=> tools[i].isSkill

\* C39: every embedding attached to a record has the length the current
\* embedding model produces, whether it was read from the cache file or
\* generated, also after a restart with another MCP_EMBEDDING_MODEL and the
\* same server configuration.
C39_EmbeddingsHaveModelDimension ==
    \A i \in 1..Len(tools) :
        tools[i].embedding # NoEmb => tools[i].embedding.dim = Dimension(modelName)

====
